---------------------------- MODULE Spec2Model ----------------------------
(***************************************************************************)
(* A model of the IMAP mail-retrieval pipeline of mail-analyzer:           *)
(*   - core/imap.py    fetch_raw_by_mailbox_and_uid_list (batch fetch with *)
(*                     retry), select_mailbox, connect_and_login_imap      *)
(*   - util.py         split_evenly                                        *)
(*   - core/handler.py email_fetch_handler (multi-worker body fetch)       *)
(*   - core/fetch_emails.py  extract_uids, fetch_email_metadata,           *)
(*                     filter_and_sort_records, the progress updates of    *)
(*                     fetch_email_body                                    *)
(*   - core/imap.py    collect_target_mailboxes, list_mailboxes            *)
(*   - core/fetch_emails.py  fetch_email_body, and the record mapping      *)
(*                     through the stages of a run                         *)
(*   - bootstrap.py    run                                                 *)
(*   - core/handler.py, core/fetch_emails.py  the SINCE date of the search *)
(*   - util.py         encode_to_utf7, decode_from_utf7                    *)
(*   - app_config/fernet_cipher.py  FernetCipher                           *)
(*   - core/imap.py    iter_mailbox_batches_from_uid_map                   *)
(*   - core/handler.py the commands of one session through a single-thread *)
(*                     run, and the body fetch by several workers next to  *)
(*                     the body fetch by the caller alone                  *)
(* Each part has its own specification (SpecFetch, SpecSelect, ...); the   *)
(* variables of the other parts stay at their idle values there.           *)
(***************************************************************************)
EXTENDS Integers, Sequences, FiniteSets, TLC

(***************************************************************************)
(* Bounds of the model.                                                    *)
(***************************************************************************)
\* UIDs and message sequence numbers range over 1..MaxUid
MaxUid == 2
\* a fetch response holds 1..MaxItems items
MaxItems == 2
\* the retry parameter ranges over 0..MaxRetry
MaxRetry == 2
\* a SELECT answers "* n EXISTS" with n in 0..MaxExists
MaxExists == 10
\* select_mailbox is called at most MaxSelectCalls times on the session
MaxSelectCalls == 4
\* split_evenly is given 0..MaxSplitLen records and 1..MaxShares shares
MaxSplitLen == 8
MaxShares == 6
\* SPLIT_WORKERS ranges over 1..MaxWorkers
MaxWorkers == 2
\* ranking hands 0..MaxRecords records to the body fetch
MaxRecords == 3
\* one call of fetch_email_body issues at most MaxCmds commands
MaxCmds == 2
\* the response to one of these commands holds 0..MaxGot items
MaxGot == 1
\* a worker's responses hold 0..MaxUpdates items, one progress update each
MaxUpdates == 2
\* ranking is given 0..MaxRank records, dated 1..MaxDate or undated
MaxRank == 3
MaxDate == 2
\* a requested limit is absent or in -MaxLimit..MaxLimit
MaxLimit == 3
\* MAILS_MAX_COUNT ranges over 1..MaxSystemMax
MaxSystemMax == 2
\* extract_uids is given 0..MaxBoxes mailboxes, a search reports 0..MaxFound UIDs
MaxBoxes == 2
MaxFound == 2
\* 0..MaxTargets explicit targets, a LIST answer of 0..MaxListed lines
MaxTargets == 2
MaxListed == 2
\* FETCH_SIZE ranges over 1..MaxFetchSize
MaxFetchSize == 2
\* a stage of the record mapping fetches at most MaxPipeBatches batches
MaxPipeBatches == 1
\* EXIT_DELAY_SECONDS ranges over 0..MaxDelay, a handler works 0..MaxWork steps
MaxDelay == 2
MaxWork == 2
\* SINCE_DAYS_AGO ranges over -MaxDays..MaxDays, today over MaxToday + 1 days
MaxDays == 3
MaxToday == 4
\* a display name has 0..MaxNameLen characters
MaxNameLen == 3
\* Fernet keys and initialisation vectors, and the length of a plain text
MaxKeys == 2
MaxTextLen == 2
MaxIv == 2
\* a mailbox holds UIDs of 1..MaxBatchUid
MaxBatchUid == 3
\* the answers of one session that may deviate from the regular one
MaxFaults == 1

VARIABLES
    \* ---- fetch_raw_by_mailbox_and_uid_list (core/imap.py) ----
    uid_list,        \* the batch: the set of requested UIDs
    retry,           \* the retry parameter
    remaining_uids,  \* UIDs not yet satisfied
    results,         \* uid -> item, the map that is returned
    attempt,         \* the loop variable of "for attempt in range(retry + 1)"
    fetch_pc,        \* "select" | "loop" | "returned" | "raised"
    uid_str,         \* the UIDs requested by the last fetch command
    status,          \* status of the last fetch command: "none" | "OK" | "NO" | "ERR"
    warned,          \* the UID sets named by the warnings printed
    cmds,            \* history: number of fetch commands issued
    sleeps,          \* history: number of time.sleep(delay) calls
    fetched_all,     \* history: UIDs parsed from the responses of all attempts
    any_ok,          \* history: some fetch command returned status OK
    \* ---- select_mailbox (core/imap.py) ----
    sel_calls,       \* number of select_mailbox calls made on the session
    sel_mailbox,     \* the mailbox of the last call
    sel_resp,        \* what imap.select did in the last call
    sel_out,         \* the outcome of the last call: [raised, ret]
    \* ---- split_evenly (util.py) ----
    split_data,      \* the records: the sequence of the dict's keys
    split_n,         \* the number of shares asked for
    split_pc,        \* "call" | "done"
    split_result,    \* the list of shares returned
    \* ---- email_fetch_handler (core/handler.py), thread 0 is the caller,
    \* ---- thread w >= 1 runs fetch_email_body_handler on share w
    is_multi_thread, \* the parameter of email_fetch_handler
    split_workers,   \* ConfigLoader.SPLIT_WORKERS
    email_records,   \* the keys of the ranked record set, in order
    batches,         \* the shares split_evenly returned
    h_pc,            \* where the caller is: "session" | "join" | "shutdown" |
                     \*   "write" | "done" | "raised"
    cm_pc,           \* per thread, where its connect_and_login_imap block is
    imap,            \* per thread, its local variable imap: a session or None
    exc,             \* per thread, the exception leaving its with block
    sess,            \* the sessions opened so far, in the order of opening
    ncmds,           \* per thread, commands issued by its fetch_email_body
    joined,          \* number of futures whose result() has returned
    body_records,    \* per thread, the keys of the dict its fetch_email_body
                     \*   works on and returns, in order
    ranked,          \* history: the keys of the record set that ranking returned
    h_signal,        \* a KeyboardInterrupt was raised in the main thread
    h_write,         \* "none" | "ok" | "failed": write_email_records_to_file
    \* ---- the progress bar shared by the workers (core/fetch_emails.py) ----
    lock,            \* the module's threading.Lock: its holder, or None
    pbar_n,          \* the counter of the progress bar (tqdm's n)
    pb_pc,           \* per worker, where it is in the loop over its items
    pb_todo,         \* per worker, items of its responses not yet handled
    pb_tmp,          \* per worker, the counter value its update has read
    pb_calls,        \* history: number of pbar.update(1) calls completed
    \* ---- filter_and_sort_records (core/fetch_emails.py) ----
    rank_records,    \* the parameter records: the dict's items in order
    rank_order,      \* the parameter order: "asc" | "desc" | "rand"
    rank_limit,      \* the parameter limit: [given, n]
    rank_max,        \* ConfigLoader.MAILS_MAX_COUNT
    rank_pc,         \* "call" | "done"
    rank_out,        \* the outcome: [raised, items]
    \* ---- extract_uids (core/fetch_emails.py) ----
    ext_mailboxes,   \* the list the loop goes through
    ext_i,           \* the index of the next mailbox of the loop
    ext_records,     \* email_records: the dict's entries [key, rec] in order
    ext_pc,          \* "start" | "loop" | "returned" | "raised"
    ext_reported,    \* history: the (mailbox, UID) pairs the searches reported
    ext_log,         \* history: per mailbox handled, what happened
    \* ---- collect_target_mailboxes, list_mailboxes (core/imap.py) ----
    res_targets,     \* the parameter target_mailboxes
    res_ignored,     \* the parameter ignored_mailboxes, as a set
    res_list,        \* what imap.list() does when it is called
    res_pc,          \* "call" | "done"
    res_out,         \* the outcome: [raised, names]
    res_listed,      \* history: imap.list() was called
    \* ---- fetch_email_metadata (core/fetch_emails.py) ----
    meta_records,    \* email_records: the dict's entries [key, rec] in order
    meta_size,       \* ConfigLoader.FETCH_SIZE
    meta_uid_map,    \* the mailboxes not yet selected: [mailbox, uids] each
    meta_mailbox,    \* the mailbox selected last
    meta_chunks,     \* the batches of that mailbox not yet fetched
    meta_pc,         \* "call" | "loop" | "returned" | "raised"
    meta_before,     \* history: the keys of email_records at the call
    meta_warned,     \* history: the (mailbox, uid) named by the warnings
    \* ---- fetch_email_body (core/fetch_emails.py), one call ----
    fb_records,      \* email_records: the dict's entries [key, rec] in order
    fb_size,         \* ConfigLoader.FETCH_SIZE
    fb_uid_map,      \* the mailboxes not yet selected: [mailbox, uids] each
    fb_mailbox,      \* the mailbox selected last
    fb_chunks,       \* the batches of that mailbox not yet fetched
    fb_pc,           \* "call" | "loop" | "after_loop" | "returned" | "raised"
    fb_before,       \* history: the entries of email_records at the call
    fb_seen,         \* history: the keys of the items handled so far
    fb_warned,       \* history: the keys named by the warnings
    fb_fetches,      \* history: number of batches that were fetched
    fb_cancel,       \* history: the cancellation caught in a batch, if any
    fb_pbar,         \* pbar.n: the progress counter, its total is len(email_records)
    \* ---- the record mapping through one run (core/handler.py) ----
    pl_records,      \* email_records: the dict's entries [key, rec] in order
    pl_multi,        \* the parameter is_multi_thread
    pl_shares,       \* the dicts the body fetches work on, one per worker
    pl_pc,           \* "discover" | "metadata" | "rank" | "split" | "body" |
                     \*   "merge" | "done" | "raised"
    pl_n,            \* number of batches fetched in the present stage
    pl_joined,       \* number of shares merged
    \* ---- run (bootstrap.py) ----
    run_seconds,     \* ConfigLoader.EXIT_DELAY_SECONDS
    run_work,        \* the steps the handler has left before it returns
    run_pc,          \* "try" | "handler" | "except" | "finally" | "sleep" |
                     \*   "returned" | "raised"
    run_outcome,     \* "running", "returned" or the exception the handler raised
    run_pending,     \* the exception that is propagating, or "none"
    run_from,        \* where run_pending was raised: "none" | "handler" | "delay"
    run_delays,      \* number of calls of _auto_exit_after_delay
    run_slept,       \* seconds slept in the delay
    run_errors,      \* number of errors logged
    \* ---- the SINCE date of the search (core/handler.py, fetch_emails.py) ----
    since_env,       \* the environment variable SINCE_DAYS_AGO: [set, n]
    since_today,     \* the day of datetime.now(), counted from 1 Jan 2023 = 0
    since_pc,        \* "config" | "date" | "criteria" | "done"
    since_days,      \* the parameter since_days of extract_uids
    since_text,      \* the date text of the SINCE criterion: [d, b, Y]
    since_criteria,  \* the search criteria, as a list of words
    \* ---- encode_to_utf7, decode_from_utf7 (util.py), one round trip ----
    utf_name,        \* the display name
    utf_wire,        \* what encode_to_utf7 returned
    utf_back,        \* what decode_from_utf7 returned
    utf_pc,          \* "encode" | "decode" | "done"
    \* ---- FernetCipher (app_config/fernet_cipher.py) ----
    fc_files,        \* per key path, the key in the file, or NoKey
    fc_instances,    \* FernetCipher._instances: per key path, the key of the
                     \*   instance's Fernet, or NoKey when there is no instance
    fc_plain,        \* the text given to encrypt
    fc_token,        \* what encrypt returned
    fc_by,           \* the key path of the instance that encrypted
    fc_out,          \* what decrypt did: [raised, text]
    fc_with,         \* the key path of the instance that decrypted
    fc_pc,           \* "encrypt" | "decrypt" | "done"
    \* ---- iter_mailbox_batches_from_uid_map (core/imap.py) ----
    bt_records,      \* email_records: the dict's entries [key, rec] in order
    bt_size,         \* fetch_size
    bt_uid_map,      \* the mailboxes not yet selected: [mailbox, uids] each
    bt_mailbox,      \* the mailbox selected last
    bt_chunks,       \* the batches of that mailbox not yet yielded
    bt_pc,           \* "call" | "loop" | "done"
    bt_out,          \* history: the batches yielded, [mailbox, uids] each
                     \* history: per select, the mailbox, its readonly
                     \*   argument and whether select_mailbox returned True
    bt_selects,
    \* ---- one session through a single-thread run (core/handler.py) ----
    ss_pc,           \* "login" | "resolve" | "discover" | "metadata" | "rank" |
                     \*   "body" | "logout" | "done"
    ss_raised,       \* an exception is on its way out of the with block
    ss_todo,         \* the mailboxes extract_uids has not searched yet
    ss_records,      \* email_records: the dict's entries [key, rec] in order
    ss_size,         \* ConfigLoader.FETCH_SIZE
    ss_max,          \* ConfigLoader.MAILS_MAX_COUNT as ranking read it, 0 before
    ss_uid_map,      \* the mailboxes the batch iterator has not selected yet
    ss_mailbox,      \* the mailbox of the batches being yielded
    ss_chunks,       \* the batches of that mailbox not yet yielded
    ss_selected,     \* the mailbox selected on the server, or "none"
    ss_cmds,         \* history: the commands sent on the session
    ss_writes,       \* history: per record written by a fetch, the mailbox
                     \*   selected on the server and the key written
    ss_found,        \* history: the (mailbox, UID) pairs the searches reported
    ss_ranked,       \* history: the keys ranking returned, {} before ranking
    ss_faults,       \* the answers so far that were not the regular one
    \* ---- body fetch by several workers against body fetch by one ----
    eq_records,      \* the ranked record set handed to the body fetch
    eq_size,         \* ConfigLoader.FETCH_SIZE
    eq_workers,      \* ConfigLoader.SPLIT_WORKERS
    eq_selectable,   \* the mailboxes whose select returns True
    eq_answered,     \* the keys whose message the server returns when asked
    eq_pc,           \* the caller: "split" | "join" | "done"
    eq_shares,       \* per worker, the dict its fetch_email_body works on
    eq_todo,         \* per worker, the batches it has not fetched yet
    eq_wpc,          \* per worker: "idle" | "run" | "returned"
    eq_joined,       \* number of futures whose result was merged
    eq_out           \* email_records of the caller

varsFetch == <<uid_list, retry, remaining_uids, results, attempt, fetch_pc,
               uid_str, status, warned, cmds, sleeps, fetched_all, any_ok>>

varsSelect == <<sel_calls, sel_mailbox, sel_resp, sel_out>>

varsSplit == <<split_data, split_n, split_pc, split_result>>

varsHandler == <<is_multi_thread, split_workers, email_records, batches, h_pc,
                 cm_pc, imap, exc, sess, ncmds, joined, body_records, ranked,
                 h_signal, h_write>>

varsProgress == <<lock, pbar_n, pb_pc, pb_todo, pb_tmp, pb_calls>>

varsRank == <<rank_records, rank_order, rank_limit, rank_max, rank_pc, rank_out>>

varsExtract == <<ext_mailboxes, ext_i, ext_records, ext_pc, ext_reported, ext_log>>

varsResolve == <<res_targets, res_ignored, res_list, res_pc, res_out, res_listed>>

varsMeta == <<meta_records, meta_size, meta_uid_map, meta_mailbox, meta_chunks,
              meta_pc, meta_before, meta_warned>>

varsBody == <<fb_records, fb_size, fb_uid_map, fb_mailbox, fb_chunks, fb_pc,
              fb_before, fb_seen, fb_warned, fb_fetches, fb_cancel, fb_pbar>>

varsPipe == <<pl_records, pl_multi, pl_shares, pl_pc, pl_n, pl_joined>>

varsRun == <<run_seconds, run_work, run_pc, run_outcome, run_pending, run_from,
             run_delays, run_slept, run_errors>>

varsSince == <<since_env, since_today, since_pc, since_days, since_text,
               since_criteria>>

varsUtf7 == <<utf_name, utf_wire, utf_back, utf_pc>>

varsCipher == <<fc_files, fc_instances, fc_plain, fc_token, fc_by, fc_out, fc_with,
                fc_pc>>

varsBatch == <<bt_records, bt_size, bt_uid_map, bt_mailbox, bt_chunks, bt_pc,
               bt_out, bt_selects>>

varsSession == <<ss_pc, ss_raised, ss_todo, ss_records, ss_size, ss_max, ss_uid_map,
                 ss_mailbox, ss_chunks, ss_selected, ss_cmds, ss_writes, ss_found,
                 ss_ranked, ss_faults>>

varsEquiv == <<eq_records, eq_size, eq_workers, eq_selectable, eq_answered, eq_pc,
               eq_shares, eq_todo, eq_wpc, eq_joined, eq_out>>

vars == <<varsFetch, varsSelect, varsSplit, varsHandler, varsProgress, varsRank, varsExtract, varsResolve, varsMeta, varsBody, varsPipe, varsRun, varsSince, varsUtf7, varsCipher, varsBatch, varsSession, varsEquiv>>

\* the variables each part leaves alone
othersFetch ==
    <<varsSelect, varsSplit, varsHandler, varsProgress, varsRank, varsExtract, varsResolve, varsMeta, varsBody, varsPipe, varsRun, varsSince, varsUtf7, varsCipher, varsBatch, varsSession, varsEquiv>>
othersSelect ==
    <<varsFetch, varsSplit, varsHandler, varsProgress, varsRank, varsExtract, varsResolve, varsMeta, varsBody, varsPipe, varsRun, varsSince, varsUtf7, varsCipher, varsBatch, varsSession, varsEquiv>>
othersSplit ==
    <<varsFetch, varsSelect, varsHandler, varsProgress, varsRank, varsExtract, varsResolve, varsMeta, varsBody, varsPipe, varsRun, varsSince, varsUtf7, varsCipher, varsBatch, varsSession, varsEquiv>>
othersHandler ==
    <<varsFetch, varsSelect, varsSplit, varsProgress, varsRank, varsExtract, varsResolve, varsMeta, varsBody, varsPipe, varsRun, varsSince, varsUtf7, varsCipher, varsBatch, varsSession, varsEquiv>>
othersProgress ==
    <<varsFetch, varsSelect, varsSplit, varsHandler, varsRank, varsExtract, varsResolve, varsMeta, varsBody, varsPipe, varsRun, varsSince, varsUtf7, varsCipher, varsBatch, varsSession, varsEquiv>>
othersRank ==
    <<varsFetch, varsSelect, varsSplit, varsHandler, varsProgress, varsExtract, varsResolve, varsMeta, varsBody, varsPipe, varsRun, varsSince, varsUtf7, varsCipher, varsBatch, varsSession, varsEquiv>>
othersExtract ==
    <<varsFetch, varsSelect, varsSplit, varsHandler, varsProgress, varsRank, varsResolve, varsMeta, varsBody, varsPipe, varsRun, varsSince, varsUtf7, varsCipher, varsBatch, varsSession, varsEquiv>>
othersResolve ==
    <<varsFetch, varsSelect, varsSplit, varsHandler, varsProgress, varsRank, varsExtract, varsMeta, varsBody, varsPipe, varsRun, varsSince, varsUtf7, varsCipher, varsBatch, varsSession, varsEquiv>>
othersMeta ==
    <<varsFetch, varsSelect, varsSplit, varsHandler, varsProgress, varsRank, varsExtract, varsResolve, varsBody, varsPipe, varsRun, varsSince, varsUtf7, varsCipher, varsBatch, varsSession, varsEquiv>>
othersBody ==
    <<varsFetch, varsSelect, varsSplit, varsHandler, varsProgress, varsRank, varsExtract, varsResolve, varsMeta, varsPipe, varsRun, varsSince, varsUtf7, varsCipher, varsBatch, varsSession, varsEquiv>>
othersPipe ==
    <<varsFetch, varsSelect, varsSplit, varsHandler, varsProgress, varsRank, varsExtract, varsResolve, varsMeta, varsBody, varsRun, varsSince, varsUtf7, varsCipher, varsBatch, varsSession, varsEquiv>>
othersRun ==
    <<varsFetch, varsSelect, varsSplit, varsHandler, varsProgress, varsRank, varsExtract, varsResolve, varsMeta, varsBody, varsPipe, varsSince, varsUtf7, varsCipher, varsBatch, varsSession, varsEquiv>>
othersSince ==
    <<varsFetch, varsSelect, varsSplit, varsHandler, varsProgress, varsRank, varsExtract, varsResolve, varsMeta, varsBody, varsPipe, varsRun, varsUtf7, varsCipher, varsBatch, varsSession, varsEquiv>>
othersUtf7 ==
    <<varsFetch, varsSelect, varsSplit, varsHandler, varsProgress, varsRank, varsExtract, varsResolve, varsMeta, varsBody, varsPipe, varsRun, varsSince, varsCipher, varsBatch, varsSession, varsEquiv>>
othersCipher ==
    <<varsFetch, varsSelect, varsSplit, varsHandler, varsProgress, varsRank, varsExtract, varsResolve, varsMeta, varsBody, varsPipe, varsRun, varsSince, varsUtf7, varsBatch, varsSession, varsEquiv>>
othersBatch ==
    <<varsFetch, varsSelect, varsSplit, varsHandler, varsProgress, varsRank, varsExtract, varsResolve, varsMeta, varsBody, varsPipe, varsRun, varsSince, varsUtf7, varsCipher, varsSession, varsEquiv>>
othersSession ==
    <<varsFetch, varsSelect, varsSplit, varsHandler, varsProgress, varsRank, varsExtract, varsResolve, varsMeta, varsBody, varsPipe, varsRun, varsSince, varsUtf7, varsCipher, varsBatch, varsEquiv>>
othersEquiv ==
    <<varsFetch, varsSelect, varsSplit, varsHandler, varsProgress, varsRank, varsExtract, varsResolve, varsMeta, varsBody, varsPipe, varsRun, varsSince, varsUtf7, varsCipher, varsBatch, varsSession>>

Mailboxes == {"INBOX", "Sent"}

Range(f) == {f[i] : i \in DOMAIN f}

\* A UID is modelled by its number: str(uid) of the request (line 174) and
\* the digits of the response (lines 196-202) are both its decimal form.
UIDs == 1..MaxUid
\* the warnings printed: none, or one naming a set of UIDs
NoWarning == {}

(***************************************************************************)
(* select_mailbox (core/imap.py 126-152).                                  *)
(* What imap.select can do: answer OK with the EXISTS count as data[0],    *)
(* answer a non-OK status, raise imaplib.IMAP4.error, raise something else.*)
(***************************************************************************)
SelectResponses ==
    {[kind |-> "OK", exists |-> n] : n \in 0..MaxExists}
        \cup {[kind |-> k, exists |-> 0] : k \in {"NO", "IMAP4.error", "Exception"}}

\* the decimal digits of n, as imaplib hands the EXISTS count over (b"12")
RECURSIVE DecimalBytes(_)
DecimalBytes(n) ==
    IF n < 10 THEN <<n>> ELSE DecimalBytes(n \div 10) \o <<n % 10>>

\* data of the select answer: [count] for OK, [text] otherwise
SelectData(resp) ==
    IF resp.kind = "OK" THEN <<DecimalBytes(resp.exists)>> ELSE <<"text">>

Return(v) == [raised |-> FALSE, ret |-> v]
Raise == [raised |-> TRUE, ret |-> FALSE]

select_mailbox_no_zero_check(resp) ==
    IF resp.kind = "OK" THEN Return(TRUE) ELSE Return(FALSE)

\* lines 138-152: the outcome of select_mailbox when imap.select does resp
select_mailbox(resp) ==
    CASE resp.kind = "IMAP4.error" -> Return(FALSE)       \* lines 147-149
      [] resp.kind = "Exception" -> Return(FALSE)         \* lines 150-152
      [] resp.kind # "OK" -> Return(FALSE)                \* lines 140-142
      [] SelectData(resp) = <<>> \/ SelectData(resp)[1] = <<0>> -> Return(FALSE)
      [] OTHER -> Return(TRUE)

(***************************************************************************)
(* Response items of a UID FETCH, as imaplib returns them: a tuple         *)
(* (meta, literal) per message with a literal, other items are bytes/None. *)
(*   uid: the n of "UID n" in meta (0: meta holds no "UID n")              *)
(*   seq: the leading number of meta (0: meta does not start with digits)  *)
(***************************************************************************)
NonTuple == [tuple |-> FALSE, uid |-> 0, seq |-> 0]

FetchItems ==
    {NonTuple}
        \cup {[tuple |-> TRUE, uid |-> u, seq |-> 1] : u \in UIDs}
        \cup {[tuple |-> TRUE, uid |-> 0, seq |-> s] : s \in 0..MaxUid}

RECURSIVE SeqsUpTo(_, _)
SeqsUpTo(S, n) ==
    IF n = 0 THEN {<<>>}
    ELSE LET shorter == SeqsUpTo(S, n - 1)
         IN  shorter \cup {Append(s, x) : s \in {t \in shorter : Len(t) = n - 1}, x \in S}

\* imaplib never hands over an empty list: [None] when nothing came back
FetchData == SeqsUpTo(FetchItems, MaxItems) \ {<<>>}

\* what imap.uid("fetch", ...) can do
FetchResponses ==
    {[status |-> "OK", data |-> d] : d \in FetchData}
        \cup {[status |-> "NO", data |-> <<NonTuple>>],
              [status |-> "ERR", data |-> <<NonTuple>>]}

\* lines 193-202: the key an item is filed under, 0 when the item is skipped
ItemUid(item) ==
    IF ~item.tuple THEN 0
    ELSE IF item.uid # 0 THEN item.uid      \* re.search(r"UID (\d+)")
    ELSE item.seq                           \* re.search(r"^(\d+)")

\* lines 191-204: fetched_uids and results after the items data[1..i]
RECURSIVE ParseItems(_, _, _)
ParseItems(data, i, res) ==
    IF i = 0 THEN [fetched |-> {}, results |-> res]
    ELSE LET before == ParseItems(data, i - 1, res)
             uid == ItemUid(data[i])
         IN  IF uid = 0 THEN before
             ELSE [fetched |-> before.fetched \cup {uid},
                   results |-> [k \in DOMAIN before.results \cup {uid} |->
                                   IF k = uid THEN data[i] ELSE before.results[k]]]

\* lines 191-204 for the whole response, merged into the results so far
MergeResponse_dropsEarlier(data, res) == ParseItems(data, Len(data), <<>>)

MergeResponse(data, res) == ParseItems(data, Len(data), res)

\* line 207
RemainingAfter_keepsAll(remaining, fetched) == remaining

RemainingAfter(remaining, fetched) == remaining \ fetched

\* lines 177-179: does the loop go on to issue a fetch command?
LoopContinues_ignoresEmpty(remaining, att, rty) == att <= rty

LoopContinues(remaining, att, rty) == att <= rty /\ remaining # {}

\* line 184: the attempt counts as failed
AttemptFailed(resp) == resp.status # "OK" \/ resp.data = <<>>

\* lines 185-189: after a failed attempt, sleep and retry (TRUE) or raise (FALSE)
RetryAfterFailure_neverRaises(att, rty) == att <= rty

RetryAfterFailure(att, rty) == att < rty

\* lines 209-210: is the delay taken after a successful attempt?
SleepAfterSuccess_always(remaining, att, rty) == att < rty

SleepAfterSuccess(remaining, att, rty) == remaining # {} /\ att < rty

\* lines 212-213: the UIDs the warning names
WarnedUids(remaining) == IF remaining # {} THEN {remaining} ELSE NoWarning

FetchInit ==
    /\ uid_list \in SUBSET UIDs
    /\ retry \in 0..MaxRetry
    /\ remaining_uids = {}
    /\ results = <<>>
    /\ attempt = 0
    /\ fetch_pc = "select"
    /\ uid_str = {}
    /\ status = "none"
    /\ warned = NoWarning
    /\ cmds = 0
    /\ sleeps = 0
    /\ fetched_all = {}
    /\ any_ok = FALSE

\* lines 171-175
FetchSelect ==
    /\ fetch_pc = "select"
    /\ \E resp \in SelectResponses :
         IF select_mailbox(resp).ret
         THEN /\ remaining_uids' = uid_list
              /\ fetch_pc' = "loop"
         ELSE /\ remaining_uids' = remaining_uids
              /\ fetch_pc' = "returned"
    /\ UNCHANGED <<uid_list, retry, results, attempt, uid_str, status, warned,
                   cmds, sleeps, fetched_all, any_ok>>
    /\ UNCHANGED othersFetch

\* lines 177-210: one iteration of the loop that issues a fetch command
FetchAttempt ==
    /\ fetch_pc = "loop"
    /\ LoopContinues(remaining_uids, attempt, retry)
    /\ uid_str' = remaining_uids
    /\ cmds' = cmds + 1
    /\ \E resp \in FetchResponses :
         /\ status' = resp.status
         /\ any_ok' = (any_ok \/ resp.status = "OK")
         /\ IF resp.status = "ERR"
            THEN \* imap.uid raises: nothing here catches it
                 /\ fetch_pc' = "raised"
                 /\ UNCHANGED <<remaining_uids, results, attempt, sleeps, fetched_all>>
            ELSE IF AttemptFailed(resp)
            THEN /\ IF RetryAfterFailure(attempt, retry)
                    THEN /\ sleeps' = sleeps + 1
                         /\ attempt' = attempt + 1
                         /\ fetch_pc' = "loop"
                    ELSE /\ sleeps' = sleeps
                         /\ attempt' = attempt
                         /\ fetch_pc' = "raised"
                 /\ UNCHANGED <<remaining_uids, results, fetched_all>>
            ELSE LET parsed == MergeResponse(resp.data, results)
                     rem == RemainingAfter(remaining_uids, parsed.fetched)
                 IN  /\ results' = parsed.results
                     /\ fetched_all' = fetched_all \cup parsed.fetched
                     /\ remaining_uids' = rem
                     /\ sleeps' = IF SleepAfterSuccess(rem, attempt, retry)
                                  THEN sleeps + 1 ELSE sleeps
                     /\ attempt' = attempt + 1
                     /\ fetch_pc' = "loop"
    /\ UNCHANGED <<uid_list, retry, warned>>
    /\ UNCHANGED othersFetch

\* lines 178-179 and 212-215: the loop ends, the warning, the return
FetchReturn ==
    /\ fetch_pc = "loop"
    /\ ~LoopContinues(remaining_uids, attempt, retry)
    /\ warned' = WarnedUids(remaining_uids)
    /\ fetch_pc' = "returned"
    /\ UNCHANGED <<uid_list, retry, remaining_uids, results, attempt, uid_str,
                   status, cmds, sleeps, fetched_all, any_ok>>
    /\ UNCHANGED othersFetch

FetchIdle ==
    /\ uid_list = {}
    /\ retry = 0
    /\ remaining_uids = {}
    /\ results = <<>>
    /\ attempt = 0
    /\ fetch_pc = "idle"
    /\ uid_str = {}
    /\ status = "none"
    /\ warned = NoWarning
    /\ cmds = 0
    /\ sleeps = 0
    /\ fetched_all = {}
    /\ any_ok = FALSE

(***************************************************************************)
(* select_mailbox called on a session, one call after the other (the loops *)
(* of extract_uids and iter_mailbox_batches_from_uid_map, the head of      *)
(* fetch_raw_by_mailbox_and_uid_list).                                     *)
(***************************************************************************)
SelectInit ==
    /\ sel_calls = 0
    /\ sel_mailbox = "INBOX"
    /\ sel_resp = [kind |-> "NO", exists |-> 0]
    /\ sel_out = Return(FALSE)

SelectIdle == SelectInit

SelectCall ==
    /\ sel_calls < MaxSelectCalls
    /\ sel_calls' = sel_calls + 1
    /\ \E mb \in Mailboxes, resp \in SelectResponses :
         /\ sel_mailbox' = mb
         /\ sel_resp' = resp
         /\ sel_out' = select_mailbox(resp)
    /\ UNCHANGED othersSelect

(***************************************************************************)
(* split_evenly (util.py 317-345).                                         *)
(***************************************************************************)
ChunkSize_dropsRemainder(i, base_size, remainder) == base_size

\* line 338, i counted from 0
ChunkSize(i, base_size, remainder) ==
    base_size + (IF i < remainder THEN 1 ELSE 0)

\* lines 335-344: result and start after the iterations 0..i-1
RECURSIVE SplitLoop(_, _, _)
SplitLoop(items, n, i) ==
    IF i = 0 THEN [result |-> <<>>, start |-> 0]
    ELSE LET before == SplitLoop(items, n, i - 1)
             size == ChunkSize(i - 1, Len(items) \div n, Len(items) % n)
         IN  [result |-> Append(before.result,
                                SubSeq(items, before.start + 1, before.start + size)),
              start |-> before.start + size]

split_evenly(items, n) == SplitLoop(items, n, n).result

SplitInit ==
    /\ split_data \in {[k \in 1..len |-> k] : len \in 0..MaxSplitLen}
    /\ split_n \in 1..MaxShares
    /\ split_pc = "call"
    /\ split_result = <<>>

SplitIdle ==
    /\ split_data = <<>>
    /\ split_n = 1
    /\ split_pc = "idle"
    /\ split_result = <<>>

SplitCall ==
    /\ split_pc = "call"
    /\ split_result' = split_evenly(split_data, split_n)
    /\ split_pc' = "done"
    /\ UNCHANGED <<split_data, split_n>>
    /\ UNCHANGED othersSplit

(***************************************************************************)
(* connect_and_login_imap (core/imap.py 19-54) and email_fetch_handler     *)
(* (core/handler.py 49-89).  A thread's with block is at                   *)
(*   "idle"       not started (a worker whose share is not submitted)      *)
(*   "enter"      before imaplib.IMAP4_SSL(host)                           *)
(*   "login"      before imap.login                                        *)
(*   "block"      the caller's block: _extract_email_uids                  *)
(*   "fetch_body" the caller's block: inside fetch_email_body              *)
(*   "finally"    the block was left, the finally clause is next           *)
(*   "exited"     the with statement was left                              *)
(***************************************************************************)
Threads == 0..MaxWorkers
Workers == 1..split_workers
None == 0

NewSession(t) ==
    [owner |-> t, state |-> "connected", logouts |-> 0,
     logout_by |-> {}, logout_raised |-> FALSE, issuers |-> {}]

\* the session a thread's commands go to: its own local variable imap
\* (handler.py 59-60 and 69-70)
Imap_outer(t) == imap[0]

Imap(t) == imap[t]

\* imap.py 49-50: is logout called when the block is left?
LogoutInFinally_onlyOnSuccess(imap_t, exc_t) == imap_t # None /\ exc_t = "none"

LogoutInFinally(imap_t, exc_t) == imap_t # None

\* imap.py 51-54: the exception that leaves the with statement when logout
\* raised or not; an exception of logout is logged and dropped
ExcAfterLogout_propagates(exc_t, logout_raises) ==
    IF logout_raises THEN "logout" ELSE exc_t

ExcAfterLogout(exc_t, logout_raises) == exc_t

\* the keys a fetch response can name: those of the ranked records and one
\* that no record has
AllKeys == 1..(MaxRecords + 1)

\* the keys of the items of one response
BodyResponses == {got \in SUBSET AllKeys : Cardinality(got) <= MaxGot}

\* a dict, as the sequence of its keys: d[k] = v
DictSet(d, k) == IF k \in Range(d) THEN d ELSE Append(d, k)

\* dict.update: the keys of other in their order
RECURSIVE DictUpdate(_, _)
DictUpdate(d, other) ==
    IF other = <<>> THEN d
    ELSE DictUpdate(DictSet(d, Head(other)), Tail(other))

\* fetch_emails.py 303-311: a fetched item is stored under its key when the
\* dict has a record for it, and skipped otherwise
StoreBody_addsUnknown(records, k) == DictSet(records, k)

StoreBody(records, k) ==
    IF k \in Range(records) THEN DictSet(records, k) ELSE records

\* fetch_emails.py 302: the loop over the items of one response
RECURSIVE StoreBodies(_, _)
StoreBodies(records, got) ==
    IF got = {} THEN records
    ELSE LET k == CHOOSE x \in got : \A y \in got : x <= y
         IN  StoreBodies(StoreBody(records, k), got \ {k})

\* the records a thread's fetch_email_body works on
Share(t) == IF t = 0 THEN email_records ELSE batches[t]

HandlerInit ==
    /\ is_multi_thread \in BOOLEAN
    /\ split_workers \in 1..MaxWorkers
    /\ email_records = <<>>
    /\ batches = <<>>
    /\ h_pc = "session"
    /\ cm_pc = [t \in Threads |-> IF t = 0 THEN "enter" ELSE "idle"]
    /\ imap = [t \in Threads |-> None]
    /\ exc = [t \in Threads |-> "none"]
    /\ sess = <<>>
    /\ ncmds = [t \in Threads |-> 0]
    /\ joined = 0
    /\ body_records = [t \in Threads |-> <<>>]
    /\ ranked = <<>>
    /\ h_signal = FALSE
    /\ h_write = "none"

HandlerIdle ==
    /\ is_multi_thread = FALSE
    /\ split_workers = 1
    /\ email_records = <<>>
    /\ batches = <<>>
    /\ h_pc = "idle"
    /\ cm_pc = [t \in Threads |-> "idle"]
    /\ imap = [t \in Threads |-> None]
    /\ exc = [t \in Threads |-> "none"]
    /\ sess = <<>>
    /\ ncmds = [t \in Threads |-> 0]
    /\ joined = 0
    /\ body_records = [t \in Threads |-> <<>>]
    /\ ranked = <<>>
    /\ h_signal = FALSE
    /\ h_write = "none"

\* imap.py 37-39: imap = imaplib.IMAP4_SSL(host), which may raise
CmConnect(t) ==
    /\ cm_pc[t] = "enter"
    /\ \/ /\ sess' = Append(sess, NewSession(t))
          /\ imap' = [imap EXCEPT ![t] = Len(sess) + 1]
          /\ cm_pc' = [cm_pc EXCEPT ![t] = "login"]
          /\ exc' = exc
       \/ /\ exc' = [exc EXCEPT ![t] = "connect"]
          /\ cm_pc' = [cm_pc EXCEPT ![t] = "finally"]
          /\ UNCHANGED <<sess, imap>>
    /\ UNCHANGED <<is_multi_thread, split_workers, email_records, batches, h_pc,
                   ncmds, joined>>
    /\ UNCHANGED <<body_records, ranked>>
    /\ UNCHANGED <<h_signal, h_write>>
    /\ UNCHANGED othersHandler

\* imap.py 40-48: imap.login, which may raise; then the yield
CmLogin(t) ==
    /\ cm_pc[t] = "login"
    /\ \/ /\ sess' = [sess EXCEPT ![imap[t]].state = "authenticated"]
          /\ cm_pc' = [cm_pc EXCEPT ![t] = IF t = 0 THEN "block" ELSE "fetch_body"]
          /\ exc' = exc
       \/ /\ exc' = [exc EXCEPT ![t] = "login"]
          /\ cm_pc' = [cm_pc EXCEPT ![t] = "finally"]
          /\ sess' = sess
    /\ UNCHANGED <<is_multi_thread, split_workers, email_records, batches, h_pc,
                   imap, ncmds, joined>>
    /\ UNCHANGED <<body_records, ranked>>
    /\ UNCHANGED <<h_signal, h_write>>
    /\ UNCHANGED othersHandler

\* handler.py 60 and 92-108: discovery, metadata fetch and ranking on the
\* caller's session.  They raise, or hand over n records; with no record
\* fetch_email_metadata raises StopIteration (fetch_emails.py 279).
MainExtract ==
    /\ h_pc = "session"
    /\ cm_pc[0] = "block"
    /\ sess' = [sess EXCEPT ![Imap(0)].issuers = @ \cup {0}]
    /\ \E n \in 0..MaxRecords, raises \in BOOLEAN :
         IF raises \/ n = 0
         THEN /\ exc' = [exc EXCEPT ![0] = "body"]
              /\ cm_pc' = [cm_pc EXCEPT ![0] = "finally"]
              /\ UNCHANGED <<email_records, ranked, body_records>>
         ELSE /\ email_records' = [k \in 1..n |-> k]
              /\ ranked' = email_records'
              /\ body_records' = IF is_multi_thread THEN body_records
                                 ELSE [body_records EXCEPT ![0] = email_records']
              /\ cm_pc' = [cm_pc EXCEPT ![0] =
                              IF is_multi_thread THEN "finally" ELSE "fetch_body"]
              /\ exc' = exc
    /\ UNCHANGED <<is_multi_thread, split_workers, batches, h_pc, imap, ncmds, joined>>
    /\ UNCHANGED <<h_signal, h_write>>
    /\ UNCHANGED othersHandler

\* fetch_emails.py 298-300: fetch_email_body issues a select or fetch
\* command on the session it was given; the command may raise, or a batch
\* may fail for good (imap.py 189), which fetch_email_body does not catch
BodyCommand(t) ==
    /\ cm_pc[t] = "fetch_body"
    /\ Len(Share(t)) > 0
    /\ ncmds[t] < MaxCmds
    /\ ncmds' = [ncmds EXCEPT ![t] = @ + 1]
    /\ sess' = [sess EXCEPT ![Imap(t)].issuers = @ \cup {t}]
    /\ \/ /\ \E got \in BodyResponses :
                body_records' = [body_records EXCEPT ![t] = StoreBodies(@, got)]
          /\ UNCHANGED <<cm_pc, exc>>
       \/ /\ exc' = [exc EXCEPT ![t] = "body"]
          /\ cm_pc' = [cm_pc EXCEPT ![t] = "finally"]
          /\ body_records' = body_records
    /\ UNCHANGED <<is_multi_thread, split_workers, email_records, batches, h_pc,
                   imap, joined, ranked>>
    /\ UNCHANGED <<h_signal, h_write>>
    /\ UNCHANGED othersHandler

\* fetch_emails.py 292-295 and 330: fetch_email_body returns, at once for
\* an empty record set, else after its batches; the with block ends.
\* handler.py 65: the caller assigns what its own call returned.
BodyReturn(t) ==
    /\ cm_pc[t] = "fetch_body"
    /\ (Len(Share(t)) = 0 \/ ncmds[t] >= 1)
    /\ cm_pc' = [cm_pc EXCEPT ![t] = "finally"]
    /\ email_records' = IF t = 0 THEN body_records[0] ELSE email_records
    /\ UNCHANGED <<is_multi_thread, split_workers, batches, h_pc,
                   imap, exc, sess, ncmds, joined, body_records, ranked>>
    /\ UNCHANGED <<h_signal, h_write>>
    /\ UNCHANGED othersHandler

\* imap.py 43-54: the except clauses re-raise, the finally clause logs out
CmFinally(t) ==
    /\ cm_pc[t] = "finally"
    /\ cm_pc' = [cm_pc EXCEPT ![t] = "exited"]
    /\ IF LogoutInFinally(imap[t], exc[t])
       THEN \E logout_raises \in BOOLEAN :
              /\ sess' = [sess EXCEPT ![imap[t]] =
                            [@ EXCEPT !.state = "logout",
                                      !.logouts = @ + 1,
                                      !.logout_by = @ \cup {t},
                                      !.logout_raised = logout_raises]]
              /\ exc' = [exc EXCEPT ![t] = ExcAfterLogout(@, logout_raises)]
       ELSE UNCHANGED <<sess, exc>>
    /\ UNCHANGED <<is_multi_thread, split_workers, email_records, batches, h_pc,
                   imap, ncmds, joined>>
    /\ UNCHANGED <<body_records, ranked>>
    /\ UNCHANGED <<h_signal, h_write>>
    /\ UNCHANGED othersHandler

\* handler.py 59-67: the statements after the with statement of the caller
\* run when its block is left, that is after the finally clause of
\* connect_and_login_imap
AfterWith_insideBlock(cm_pc_0) == cm_pc_0 \in {"finally", "exited"}

AfterWith(cm_pc_0) == cm_pc_0 = "exited"

\* handler.py 59-78: the caller's with statement is left; an exception goes
\* on to the caller of the handler, else the shares are split and submitted
MainAfterSession ==
    /\ h_pc = "session"
    /\ AfterWith(cm_pc[0])
    /\ IF exc[0] # "none"
       THEN /\ h_pc' = "raised"
            /\ UNCHANGED <<batches, cm_pc, body_records>>
       ELSE IF is_multi_thread
       THEN /\ batches' = split_evenly(email_records, split_workers)
            /\ body_records' = [t \in Threads |->
                                  IF t \in Workers THEN batches'[t]
                                  ELSE body_records[t]]
            /\ cm_pc' = [t \in Threads |-> IF t \in Workers THEN "enter" ELSE cm_pc[t]]
            /\ h_pc' = "join"
       ELSE /\ h_pc' = "write"
            /\ UNCHANGED <<batches, cm_pc, body_records>>
    /\ UNCHANGED <<is_multi_thread, split_workers, email_records, imap, exc, sess,
                   ncmds, joined, ranked>>
    /\ UNCHANGED <<h_signal, h_write>>
    /\ UNCHANGED othersHandler

\* handler.py 80: future.result() raises what the worker's call raised
ResultRaises_swallowed(exc_w) == FALSE

ResultRaises(exc_w) == exc_w # "none"

\* handler.py 79-82: future.result() of the next share, which re-raises
\* what the worker raised; a result is merged by email_records.update
MainJoin ==
    /\ h_pc = "join"
    /\ joined < split_workers
    /\ cm_pc[joined + 1] = "exited"
    /\ IF ResultRaises(exc[joined + 1])
       THEN /\ h_pc' = "shutdown"
            /\ UNCHANGED <<joined, email_records>>
       ELSE /\ joined' = joined + 1
            /\ email_records' = DictUpdate(email_records, body_records[joined + 1])
            /\ h_pc' = IF joined + 1 = split_workers THEN "write" ELSE "join"
    /\ UNCHANGED <<is_multi_thread, split_workers, batches, cm_pc,
                   imap, exc, sess, ncmds, body_records, ranked>>
    /\ UNCHANGED <<h_signal, h_write>>
    /\ UNCHANGED othersHandler

\* handler.py 74: leaving "with ThreadPoolExecutor" waits for every worker
MainShutdown ==
    /\ h_pc = "shutdown"
    /\ \A w \in Workers : cm_pc[w] = "exited"
    /\ h_pc' = "raised"
    /\ UNCHANGED <<is_multi_thread, split_workers, email_records, batches, cm_pc,
                   imap, exc, sess, ncmds, joined>>
    /\ UNCHANGED <<body_records, ranked>>
    /\ UNCHANGED <<h_signal, h_write>>
    /\ UNCHANGED othersHandler

\* handler.py 72-82: the signal handler of the interpreter runs in the main
\* thread only, so a KeyboardInterrupt comes up in the caller while it waits
\* in future.result(); it leaves the for loop and the with statements
MainInterrupt ==
    /\ h_pc = "join"
    /\ joined < split_workers
    /\ h_signal' = TRUE
    /\ h_pc' = "shutdown"
    /\ UNCHANGED <<is_multi_thread, split_workers, email_records, batches, cm_pc,
                   imap, exc, sess, ncmds, joined, body_records, ranked, h_write>>
    /\ UNCHANGED othersHandler

\* handler.py 88-89: what "if not is_success: raise" does.  A raise
\* statement without an expression and without an exception being handled
\* raises RuntimeError.
AfterWrite(is_success) == IF is_success THEN "done" ELSE "raised"

\* handler.py 85-89 and fetch_emails.py 350-359: the records are written,
\* which succeeds or is reported as failed
MainWrite ==
    /\ h_pc = "write"
    /\ \E is_success \in BOOLEAN :
         /\ h_write' = IF is_success THEN "ok" ELSE "failed"
         /\ h_pc' = AfterWrite(is_success)
    /\ UNCHANGED <<is_multi_thread, split_workers, email_records, batches, cm_pc,
                   imap, exc, sess, ncmds, joined>>
    /\ UNCHANGED <<body_records, ranked, h_signal>>
    /\ UNCHANGED othersHandler

CmStep == \E t \in Threads : CmConnect(t) \/ CmLogin(t) \/ CmFinally(t)

BodyStep == \E t \in Threads : BodyCommand(t) \/ BodyReturn(t)

(***************************************************************************)
(* The progress updates of fetch_email_body (core/fetch_emails.py 301-314) *)
(* by the workers of email_fetch_handler.  pbar.update(1) adds to the      *)
(* counter by reading it and then writing it; a worker is at               *)
(*   "loop"     between two items                                          *)
(*   "acquire"  at "with lock:"                                            *)
(*   "read"     inside pbar.update, before reading the counter             *)
(*   "write"    inside pbar.update, before writing the counter             *)
(*   "release"  at the end of the with block                               *)
(*   "done"     after its last item                                        *)
(***************************************************************************)
PbWorkers == 1..MaxWorkers

\* fetch_emails.py 16, 307 and 313: "with lock" is entered when no thread
\* holds the lock
LockFree_notTaken(holder) == TRUE

LockFree(holder) == holder = None

ProgressInit ==
    /\ lock = None
    /\ pbar_n = 0
    /\ pb_todo \in [PbWorkers -> 0..MaxUpdates]
    /\ pb_pc = [w \in PbWorkers |-> "loop"]
    /\ pb_tmp = [w \in PbWorkers |-> 0]
    /\ pb_calls = 0

ProgressIdle ==
    /\ lock = None
    /\ pbar_n = 0
    /\ pb_todo = [w \in PbWorkers |-> 0]
    /\ pb_pc = [w \in PbWorkers |-> "idle"]
    /\ pb_tmp = [w \in PbWorkers |-> 0]
    /\ pb_calls = 0

\* fetch_emails.py 301-306 and 310-312: the next item, with or without a
\* record; both branches go on to update the bar
ProgressItem(w) ==
    /\ pb_pc[w] = "loop"
    /\ pb_todo[w] > 0
    /\ \E has_record \in BOOLEAN :
         pb_pc' = [pb_pc EXCEPT ![w] = "acquire"]
    /\ UNCHANGED <<lock, pbar_n, pb_todo, pb_tmp, pb_calls>>
    /\ UNCHANGED othersProgress

\* fetch_emails.py 307 and 313: with lock
ProgressAcquire(w) ==
    /\ pb_pc[w] = "acquire"
    /\ LockFree(lock)
    /\ lock' = w
    /\ pb_pc' = [pb_pc EXCEPT ![w] = "read"]
    /\ UNCHANGED <<pbar_n, pb_todo, pb_tmp, pb_calls>>
    /\ UNCHANGED othersProgress

\* fetch_emails.py 308 and 314: pbar.update(1) reads the counter
ProgressRead(w) ==
    /\ pb_pc[w] = "read"
    /\ pb_tmp' = [pb_tmp EXCEPT ![w] = pbar_n]
    /\ pb_pc' = [pb_pc EXCEPT ![w] = "write"]
    /\ UNCHANGED <<lock, pbar_n, pb_todo, pb_calls>>
    /\ UNCHANGED othersProgress

\* fetch_emails.py 308 and 314: pbar.update(1) writes the counter
ProgressWrite(w) ==
    /\ pb_pc[w] = "write"
    /\ pbar_n' = pb_tmp[w] + 1
    /\ pb_calls' = pb_calls + 1
    /\ pb_pc' = [pb_pc EXCEPT ![w] = "release"]
    /\ UNCHANGED <<lock, pb_todo, pb_tmp>>
    /\ UNCHANGED othersProgress

\* fetch_emails.py 307-309 and 313-314: the with block is left
ProgressRelease(w) ==
    /\ pb_pc[w] = "release"
    /\ lock' = None
    /\ pb_todo' = [pb_todo EXCEPT ![w] = @ - 1]
    /\ pb_pc' = [pb_pc EXCEPT ![w] = "loop"]
    /\ UNCHANGED <<pbar_n, pb_tmp, pb_calls>>
    /\ UNCHANGED othersProgress

\* fetch_emails.py 298 and 330: no item is left, fetch_email_body returns
ProgressReturn(w) ==
    /\ pb_pc[w] = "loop"
    /\ pb_todo[w] = 0
    /\ pb_pc' = [pb_pc EXCEPT ![w] = "done"]
    /\ UNCHANGED <<lock, pbar_n, pb_todo, pb_tmp, pb_calls>>
    /\ UNCHANGED othersProgress

ProgressUpdate ==
    \E w \in PbWorkers :
        ProgressAcquire(w) \/ ProgressRead(w) \/ ProgressWrite(w) \/ ProgressRelease(w)

ProgressLoop == \E w \in PbWorkers : ProgressItem(w) \/ ProgressReturn(w)

(***************************************************************************)
(* filter_and_sort_records and _limit_mail_count (core/fetch_emails.py     *)
(* 168-199 and 233-260).  A record is [key, internaldate]; internaldate is *)
(* NoDate (None) or a date 1..MaxDate, which _parse_fetch_metadata parsed  *)
(* with %z (line 221) and which therefore carries a UTC offset.            *)
(***************************************************************************)
NoDate == 0
Dates == 1..MaxDate

RankRecords ==
    UNION {[1..n -> Dates \cup {NoDate}] : n \in 0..MaxRank}

\* the dict whose i-th key is i and whose i-th record has date ds[i]
RecordsOf(ds) == [i \in DOMAIN ds |-> [key |-> i, internaldate |-> ds[i]]]

NoLimit == [given |-> FALSE, n |-> 0]
Limits == {NoLimit} \cup {[given |-> TRUE, n |-> k] : k \in -MaxLimit..MaxLimit}

Min(a, b) == IF a <= b THEN a ELSE b
Max(a, b) == IF a >= b THEN a ELSE b

\* fetch_emails.py 251: the sort key, internaldate or datetime.min; the
\* latter has no UTC offset (naive) and precedes every date
SortKey(rec) ==
    IF rec.internaldate = NoDate
    THEN [naive |-> TRUE, t |-> 0]
    ELSE [naive |-> FALSE, t |-> rec.internaldate]

\* comparing a naive datetime with one that has an offset raises TypeError,
\* and sorting compares two such keys as soon as the list has both kinds
SortRaises(items) ==
    \E i \in DOMAIN items, j \in DOMAIN items :
        SortKey(items[i]).naive # SortKey(items[j]).naive

\* must x come before e?  reverse = (order == "desc")
Before(x, e, reverse) ==
    IF reverse THEN SortKey(x).t > SortKey(e).t ELSE SortKey(x).t < SortKey(e).t

\* list.sort is stable, with reverse too: x goes before the first element
\* it must precede
RECURSIVE InsertSorted(_, _, _)
InsertSorted(sorted, x, reverse) ==
    IF sorted = <<>> THEN <<x>>
    ELSE IF Before(x, Head(sorted), reverse) THEN <<x>> \o sorted
    ELSE <<Head(sorted)>> \o InsertSorted(Tail(sorted), x, reverse)

RECURSIVE SortItems(_, _, _)
SortItems(items, n, reverse) ==
    IF n = 0 THEN <<>>
    ELSE InsertSorted(SortItems(items, n - 1, reverse), items[n], reverse)

\* fetch_emails.py 248: random.shuffle puts the items in some order
Orders(n) ==
    {p \in [1..n -> 1..n] : \A i \in 1..n, j \in 1..n : p[i] = p[j] => i = j}

Shuffle_repeatsFirst(items, p) == [i \in DOMAIN items |-> items[p[1]]]

Shuffle(items, p) == [i \in DOMAIN items |-> items[p[i]]]

\* fetch_emails.py 168-199: the number of records to keep
LimitMailCount(uids_len, mail_count, max_count) ==
    LET count == IF mail_count.given THEN mail_count.n ELSE max_count
    IN  Min(uids_len, Min(count, max_count))

\* fetch_emails.py 255: items[:limit], where a negative limit counts from
\* the end of the list
Slice(items, limit) ==
    IF limit >= 0
    THEN SubSeq(items, 1, Min(limit, Len(items)))
    ELSE SubSeq(items, 1, Max(0, Len(items) + limit))

\* fetch_emails.py 244-260; p is the order random.shuffle chooses
FilterAndSortRecords(records, order, limit, max_count, p) ==
    IF order # "rand" /\ SortRaises(records)
    THEN [raised |-> TRUE, items |-> <<>>]
    ELSE LET items == IF order = "rand" THEN Shuffle(records, p)
                      ELSE SortItems(records, Len(records), order = "desc")
         IN  [raised |-> FALSE,
              items |-> Slice(items, LimitMailCount(Len(records), limit, max_count))]

RankInit ==
    /\ rank_records \in {RecordsOf(ds) : ds \in RankRecords}
    /\ rank_order \in {"asc", "desc", "rand"}
    /\ rank_limit \in Limits
    /\ rank_max \in 1..MaxSystemMax
    /\ rank_pc = "call"
    /\ rank_out = [raised |-> FALSE, items |-> <<>>]

RankIdle ==
    /\ rank_records = <<>>
    /\ rank_order = "asc"
    /\ rank_limit = NoLimit
    /\ rank_max = 1
    /\ rank_pc = "idle"
    /\ rank_out = [raised |-> FALSE, items |-> <<>>]

RankCall ==
    /\ rank_pc = "call"
    /\ \E p \in Orders(Len(rank_records)) :
         rank_out' = FilterAndSortRecords(rank_records, rank_order, rank_limit,
                                          rank_max, p)
    /\ rank_pc' = "done"
    /\ UNCHANGED <<rank_records, rank_order, rank_limit, rank_max>>
    /\ UNCHANGED othersRank

(***************************************************************************)
(* extract_uids and _prepare_email_records (core/fetch_emails.py 65-99).   *)
(* A dict is the sequence of its entries [key, rec] in insertion order.    *)
(* show_name (line 79) only goes to the log and is left out.               *)
(***************************************************************************)
\* what imap.uid("search", ...) can do: OK with the UIDs found (none: the
\* data is [b""] or [None]), NO with a text, or raise
SearchResponses ==
    {[status |-> "OK", uids |-> u] : u \in SeqsUpTo(UIDs, MaxFound)}
        \cup {[status |-> "NO", uids |-> <<>>], [status |-> "ERR", uids |-> <<>>]}

EntryKeys(d) == {d[i].key : i \in DOMAIN d}

\* d[e.key] = e.rec of a dict: a new key goes to the end, an old one keeps
\* its place
PutEntry_appends(d, e) == Append(d, e)

PutEntry(d, e) ==
    IF e.key \in EntryKeys(d)
    THEN [i \in DOMAIN d |-> IF d[i].key = e.key THEN e ELSE d[i]]
    ELSE Append(d, e)

\* email_record.py 6-13: the dataclass EmailRecord; a text field that is
\* None is NoText, subject and body are None at construction
NoText == 0

EmailRecord(mailbox, uid, internaldate, to) ==
    [mailbox |-> mailbox, uid |-> uid, internaldate |-> internaldate, to |-> to,
     subject |-> NoText, body |-> NoText]

\* fetch_emails.py 98: EmailRecord(mailbox=mailbox, uid=uid), filed under
\* the key (mailbox, uid)
NewEntry(mailbox, uid) ==
    [key |-> <<mailbox, uid>>, rec |-> EmailRecord(mailbox, uid, NoDate, NoText)]

\* fetch_emails.py 93-99
RECURSIVE PrepareEmailRecords(_, _, _)
PrepareEmailRecords(mailbox, uid_int_list, records) ==
    IF uid_int_list = <<>> THEN records
    ELSE LET key == <<mailbox, Head(uid_int_list)>>
             next == IF key \notin EntryKeys(records)
                     THEN PutEntry(records, NewEntry(mailbox, Head(uid_int_list)))
                     ELSE records
         IN  PrepareEmailRecords(mailbox, Tail(uid_int_list), next)

\* dict.update of entries
RECURSIVE UpdateEntries(_, _)
UpdateEntries(d, other) ==
    IF other = <<>> THEN d
    ELSE UpdateEntries(PutEntry(d, Head(other)), Tail(other))

\* fetch_emails.py 81 and 85: continue goes to the next mailbox of n
AfterContinue_breaks(i, n) == n + 1

AfterContinue(i, n) == i + 1

ExtractInit ==
    /\ ext_mailboxes \in SeqsUpTo(Mailboxes, MaxBoxes)
    /\ ext_i = 1
    /\ ext_records = <<>>
    /\ ext_pc = "start"
    /\ ext_reported = {}
    /\ ext_log = <<>>

ExtractIdle ==
    /\ ext_mailboxes = <<>>
    /\ ext_i = 1
    /\ ext_records = <<>>
    /\ ext_pc = "idle"
    /\ ext_reported = {}
    /\ ext_log = <<>>

\* fetch_emails.py 71-77: with no mailbox given the server's list is used
ExtractStart ==
    /\ ext_pc = "start"
    /\ IF ext_mailboxes # <<>>
       THEN ext_mailboxes' = ext_mailboxes
       ELSE ext_mailboxes' \in SeqsUpTo(Mailboxes, MaxBoxes)
    /\ ext_pc' = "loop"
    /\ UNCHANGED <<ext_i, ext_records, ext_reported, ext_log>>
    /\ UNCHANGED othersExtract

\* what the log keeps of one pass of the loop
LogEntry(mailbox, selected, search, uids, changed) ==
    [mailbox |-> mailbox, selected |-> selected, search |-> search,
     found |-> {uids[k] : k \in DOMAIN uids},
     repeated |-> \E j \in DOMAIN uids, k \in DOMAIN uids : j # k /\ uids[j] = uids[k],
     changed |-> changed]

\* fetch_emails.py 78-88: one pass of the loop
ExtractMailbox ==
    /\ ext_pc = "loop"
    /\ ext_i <= Len(ext_mailboxes)
    /\ LET mailbox == ext_mailboxes[ext_i]
           n == Len(ext_mailboxes)
       IN  \E sel \in SelectResponses, srch \in SearchResponses :
             IF ~select_mailbox(sel).ret
             THEN /\ ext_i' = AfterContinue(ext_i, n)
                  /\ ext_log' = Append(ext_log, LogEntry(mailbox, FALSE, "none", <<>>, FALSE))
                  /\ UNCHANGED <<ext_pc, ext_records, ext_reported>>
             ELSE IF srch.status = "ERR"
             THEN /\ ext_pc' = "raised"
                  /\ ext_log' = Append(ext_log, LogEntry(mailbox, TRUE, "ERR", <<>>, FALSE))
                  /\ UNCHANGED <<ext_i, ext_records, ext_reported>>
             ELSE IF srch.status = "NO"
             \* line 86: int() of the words of the NO text raises ValueError
             THEN /\ ext_pc' = "raised"
                  /\ ext_log' = Append(ext_log, LogEntry(mailbox, TRUE, "NO", <<>>, FALSE))
                  /\ UNCHANGED <<ext_i, ext_records, ext_reported>>
             ELSE IF srch.uids = <<>>
             THEN /\ ext_i' = AfterContinue(ext_i, n)
                  /\ ext_log' = Append(ext_log, LogEntry(mailbox, TRUE, "OK", <<>>, FALSE))
                  /\ UNCHANGED <<ext_pc, ext_records, ext_reported>>
             ELSE /\ ext_records' =
                       UpdateEntries(ext_records,
                                     PrepareEmailRecords(mailbox, srch.uids, <<>>))
                  /\ ext_reported' = ext_reported
                       \cup {<<mailbox, srch.uids[k]>> : k \in DOMAIN srch.uids}
                  /\ ext_i' = ext_i + 1
                  /\ ext_log' = Append(ext_log,
                        LogEntry(mailbox, TRUE, "OK", srch.uids, ext_records' # ext_records))
                  /\ ext_pc' = ext_pc
    /\ UNCHANGED ext_mailboxes
    /\ UNCHANGED othersExtract

\* fetch_emails.py 89
ExtractReturn ==
    /\ ext_pc = "loop"
    /\ ext_i > Len(ext_mailboxes)
    /\ ext_pc' = "returned"
    /\ UNCHANGED <<ext_mailboxes, ext_i, ext_records, ext_reported, ext_log>>
    /\ UNCHANGED othersExtract

(***************************************************************************)
(* collect_target_mailboxes and list_mailboxes (core/imap.py 219-269).     *)
(* A mailbox name is a sequence of characters: "a" stands for a printable  *)
(* ASCII character other than "&", "U" for a character outside ASCII.  In  *)
(* wire form (modified UTF-7) "&" is written "&-" and a run of n           *)
(* characters outside ASCII "&", n times "b" (their base64 digits), "-".   *)
(***************************************************************************)
MailboxNames == {<<"a">>, <<"&">>, <<"U", "U">>}

\* util.py 189-196: encode_to_utf7; in_b64 says that a base64 run is open
RECURSIVE Utf7EncodeFrom(_, _)
Utf7EncodeFrom(text, in_b64) ==
    LET close == IF in_b64 THEN <<"-">> ELSE <<>>
    IN  IF text = <<>> THEN close
        ELSE IF Head(text) = "U"
        THEN (IF in_b64 THEN <<"b">> ELSE <<"&", "b">>) \o Utf7EncodeFrom(Tail(text), TRUE)
        ELSE IF Head(text) = "&"
        THEN close \o <<"&", "-">> \o Utf7EncodeFrom(Tail(text), FALSE)
        ELSE close \o <<Head(text)>> \o Utf7EncodeFrom(Tail(text), FALSE)

EncodeToUtf7_asItStands(text) == text

EncodeToUtf7(text) == Utf7EncodeFrom(text, FALSE)

\* a line of the LIST answer: the mailbox it names and its \Noselect flag
ListLines ==
    {[name |-> nm, noselect |-> f] : nm \in MailboxNames, f \in BOOLEAN}

\* what imap.list() can do
ListResponses ==
    {[status |-> "OK", lines |-> l] : l \in SeqsUpTo(ListLines, MaxListed)}
        \cup {[status |-> "NO", lines |-> <<>>], [status |-> "ERR", lines |-> <<>>]}

\* imap.py 230-240: the name on a line, which the server writes in wire
\* form; it is taken as it stands
LineName(line) == EncodeToUtf7(line.name)

\* imap.py 224-248 with no ignore_list: imaplib hands over [None] when the
\* answer has no line, and str(None) is then taken for a name
ListMailboxes(resp) ==
    IF resp.status # "OK" THEN <<>>
    ELSE IF resp.lines = <<>> THEN << <<"None">> >>
    ELSE [i \in DOMAIN resp.lines |-> LineName(resp.lines[i])]

\* imap.py 264-266: the names that are not in the ignore list
WithoutIgnored_keepsAll(mailbox_list, ignored_set) == mailbox_list

RECURSIVE WithoutIgnored(_, _)
WithoutIgnored(mailbox_list, ignored_set) ==
    IF mailbox_list = <<>> THEN <<>>
    ELSE (IF Head(mailbox_list) \in ignored_set THEN <<>> ELSE <<Head(mailbox_list)>>)
            \o WithoutIgnored(Tail(mailbox_list), ignored_set)

\* imap.py 252-269
CollectTargetMailboxes(target_mailboxes, ignored_mailboxes, resp) ==
    IF target_mailboxes = <<>> /\ resp.status = "ERR"
    THEN [raised |-> TRUE, names |-> <<>>]
    ELSE LET mailbox_list == IF target_mailboxes # <<>> THEN target_mailboxes
                             ELSE ListMailboxes(resp)
             kept == WithoutIgnored(mailbox_list, ignored_mailboxes)
         IN  [raised |-> FALSE,
              names |-> [i \in DOMAIN kept |-> EncodeToUtf7(kept[i])]]

ResolveInit ==
    /\ res_targets \in SeqsUpTo(MailboxNames, MaxTargets)
    /\ res_ignored \in SUBSET MailboxNames
    /\ res_list \in ListResponses
    /\ res_pc = "call"
    /\ res_out = [raised |-> FALSE, names |-> <<>>]
    /\ res_listed = FALSE

ResolveIdle ==
    /\ res_targets = <<>>
    /\ res_ignored = {}
    /\ res_list = [status |-> "NO", lines |-> <<>>]
    /\ res_pc = "idle"
    /\ res_out = [raised |-> FALSE, names |-> <<>>]
    /\ res_listed = FALSE

ResolveCall ==
    /\ res_pc = "call"
    /\ res_out' = CollectTargetMailboxes(res_targets, res_ignored, res_list)
    /\ res_listed' = (res_targets = <<>>)
    /\ res_pc' = "done"
    /\ UNCHANGED <<res_targets, res_ignored, res_list>>
    /\ UNCHANGED othersResolve

(***************************************************************************)
(* fetch_email_metadata (core/fetch_emails.py 264-284) with the batches of *)
(* _iter_mailbox_batches (42-60) and iter_mailbox_batches_from_uid_map     *)
(* (core/imap.py 64-83), which selects a mailbox when its first batch is   *)
(* asked for.                                                              *)
(***************************************************************************)
\* the record sets extract_uids can hand over: mailbox by mailbox
RECURSIVE EntriesOf(_, _)
EntriesOf(mailbox, uids) ==
    IF uids = {} THEN <<>>
    ELSE LET u == CHOOSE x \in uids : \A y \in uids : x <= y
         IN  <<NewEntry(mailbox, u)>> \o EntriesOf(mailbox, uids \ {u})

DiscoveredRecords ==
    {EntriesOf("INBOX", a) \o EntriesOf("Sent", b) : a \in SUBSET UIDs, b \in SUBSET UIDs}

\* fetch_emails.py 56-58: the UIDs of the records of one mailbox, in order
RECURSIVE UidsOf(_, _)
UidsOf(records, mailbox) ==
    IF records = <<>> THEN <<>>
    ELSE (IF Head(records).key[1] = mailbox THEN <<Head(records).key[2]>> ELSE <<>>)
            \o UidsOf(Tail(records), mailbox)

\* fetch_emails.py 56-58: uid_map, the mailboxes in the order of their
\* first record
RECURSIVE UidMap(_, _, _)
UidMap(records, all, seen) ==
    IF records = <<>> THEN <<>>
    ELSE LET mailbox == Head(records).key[1]
         IN  IF mailbox \in seen THEN UidMap(Tail(records), all, seen)
             ELSE <<[mailbox |-> mailbox, uids |-> UidsOf(all, mailbox)]>>
                    \o UidMap(Tail(records), all, seen \cup {mailbox})

\* imap.py 57-61: _chunked
RECURSIVE Chunked_onlyFull(_, _)
Chunked_onlyFull(iterable, size) ==
    IF Len(iterable) < size THEN <<>>
    ELSE <<SubSeq(iterable, 1, size)>>
            \o Chunked_onlyFull(SubSeq(iterable, size + 1, Len(iterable)), size)

RECURSIVE Chunked(_, _)
Chunked(iterable, size) ==
    IF iterable = <<>> THEN <<>>
    ELSE IF Len(iterable) <= size THEN <<iterable>>
    ELSE <<SubSeq(iterable, 1, size)>>
            \o Chunked(SubSeq(iterable, size + 1, Len(iterable)), size)

\* what fetch_raw_by_mailbox_and_uid_list can return: a map from UIDs to the
\* tuple items filed under them, whether or not the UID was asked for
FetchResults ==
    UNION {{r \in [d -> {it \in FetchItems : it.tuple}] : \A k \in d : ItemUid(r[k]) = k} :
             d \in SUBSET UIDs}

\* fetch_emails.py 202-230: _parse_fetch_metadata returns None for an item
\* whose meta holds no "UID n", else a record with the UID of the meta, the
\* date of the meta and the To header of the message (written as its UID)
ParseFetchMetadata_usesSequenceNumber(mailbox, item, date) ==
    [none |-> item.uid = 0, rec |-> EmailRecord(mailbox, item.seq, date, item.uid)]

ParseFetchMetadata(mailbox, item, date) ==
    IF item.uid = 0
    THEN [none |-> TRUE, rec |-> EmailRecord(mailbox, 0, NoDate, NoText)]
    ELSE [none |-> FALSE, rec |-> EmailRecord(mailbox, item.uid, date, item.uid)]

\* fetch_emails.py 273-277 for one item of fetch_data
StoreMetadata(records, mailbox, uid, parsed) ==
    IF parsed.none THEN records
    ELSE PutEntry(records, [key |-> <<mailbox, uid>>, rec |-> parsed.rec])

\* fetch_emails.py 272-277: the loop over fetch_data
RECURSIVE StoreAllMetadata(_, _, _, _, _)
StoreAllMetadata(records, mailbox, fetch_data, todo, date) ==
    IF todo = {} THEN records
    ELSE LET uid == CHOOSE x \in todo : \A y \in todo : x <= y
             parsed == ParseFetchMetadata(mailbox, fetch_data[uid], date)
         IN  StoreAllMetadata(StoreMetadata(records, mailbox, uid, parsed),
                              mailbox, fetch_data, todo \ {uid}, date)

MetaInit ==
    /\ meta_records \in DiscoveredRecords
    /\ meta_size \in 1..MaxFetchSize
    /\ meta_uid_map = <<>>
    /\ meta_mailbox = "INBOX"
    /\ meta_chunks = <<>>
    /\ meta_pc = "call"
    /\ meta_before = {}
    /\ meta_warned = {}

MetaIdle ==
    /\ meta_records = <<>>
    /\ meta_size = 1
    /\ meta_uid_map = <<>>
    /\ meta_mailbox = "INBOX"
    /\ meta_chunks = <<>>
    /\ meta_pc = "idle"
    /\ meta_before = {}
    /\ meta_warned = {}

\* fetch_emails.py 267 and 56-60: the UID map is built from the records
MetaCall ==
    /\ meta_pc = "call"
    /\ meta_uid_map' = UidMap(meta_records, meta_records, {})
    /\ meta_before' = EntryKeys(meta_records)
    /\ meta_pc' = "loop"
    /\ UNCHANGED <<meta_records, meta_size, meta_mailbox, meta_chunks, meta_warned>>
    /\ UNCHANGED othersMeta

\* imap.py 78-82: the next mailbox is selected; it is left out when
\* select_mailbox returns False
MetaSelect ==
    /\ meta_pc = "loop"
    /\ meta_chunks = <<>>
    /\ meta_uid_map # <<>>
    /\ \E sel \in SelectResponses :
         /\ meta_chunks' = IF select_mailbox(sel).ret
                           THEN Chunked(Head(meta_uid_map).uids, meta_size)
                           ELSE <<>>
    /\ meta_mailbox' = Head(meta_uid_map).mailbox
    /\ meta_uid_map' = Tail(meta_uid_map)
    /\ UNCHANGED <<meta_records, meta_size, meta_pc, meta_before, meta_warned>>
    /\ UNCHANGED othersMeta

\* fetch_emails.py 268-277: one batch is fetched, which may raise, and its
\* items are stored
MetaBatch ==
    /\ meta_pc = "loop"
    /\ meta_chunks # <<>>
    /\ \/ /\ meta_pc' = "raised"
          /\ UNCHANGED <<meta_records, meta_chunks, meta_warned>>
       \/ \E fetch_data \in FetchResults, date \in {NoDate, 1} :
            /\ meta_records' = StoreAllMetadata(meta_records, meta_mailbox, fetch_data,
                                                DOMAIN fetch_data, date)
            /\ meta_warned' = meta_warned \cup
                 {<<meta_mailbox, uid>> : uid \in {k \in DOMAIN fetch_data :
                     ParseFetchMetadata(meta_mailbox, fetch_data[k], date).none}}
            /\ meta_chunks' = Tail(meta_chunks)
            /\ meta_pc' = meta_pc
    /\ UNCHANGED <<meta_size, meta_uid_map, meta_mailbox, meta_before>>
    /\ UNCHANGED othersMeta

\* fetch_emails.py 279-284: next(iter(...)) raises StopIteration when there
\* is no record
MetaReturn ==
    /\ meta_pc = "loop"
    /\ meta_chunks = <<>>
    /\ meta_uid_map = <<>>
    /\ meta_pc' = IF meta_records = <<>> THEN "raised" ELSE "returned"
    /\ UNCHANGED <<meta_records, meta_size, meta_uid_map, meta_mailbox, meta_chunks,
                   meta_before, meta_warned>>
    /\ UNCHANGED othersMeta

(***************************************************************************)
(* fetch_email_body (core/fetch_emails.py 288-330), one call of it.  The   *)
(* subject and the body taken from a fetched message are written as the    *)
(* UID its item was filed under.                                           *)
(***************************************************************************)
NoCancel == [happened |-> FALSE, fetches |-> 0, stored |-> {}]

\* fetch_emails.py 303: email_records.get(key), None when there is no record
GetEntry(records, key) ==
    IF key \in EntryKeys(records)
    THEN [none |-> FALSE,
          rec |-> (CHOOSE e \in Range(records) : e.key = key).rec]
    ELSE [none |-> TRUE, rec |-> EmailRecord(key[1], key[2], NoDate, NoText)]

\* fetch_emails.py 303-311 for one item of raw_data
StoreSubjectAndBody_addsUnknown(records, mailbox, uid) ==
    PutEntry(records,
             [key |-> <<mailbox, uid>>,
              rec |-> [GetEntry(records, <<mailbox, uid>>).rec
                          EXCEPT !.subject = uid, !.body = uid]])

StoreSubjectAndBody(records, mailbox, uid) ==
    LET record == GetEntry(records, <<mailbox, uid>>)
    IN  IF record.none THEN records
        ELSE PutEntry(records,
                      [key |-> <<mailbox, uid>>,
                       rec |-> [record.rec EXCEPT !.subject = uid, !.body = uid]])

\* fetch_emails.py 301-314: the loop over the items todo of raw_data
RECURSIVE StoreAllBodies(_, _, _)
StoreAllBodies(records, mailbox, todo) ==
    IF todo = {} THEN records
    ELSE LET uid == CHOOSE x \in todo : \A y \in todo : x <= y
         IN  StoreAllBodies(StoreSubjectAndBody(records, mailbox, uid),
                            mailbox, todo \ {uid})

\* fetch_emails.py 315-317: what follows a KeyboardInterrupt in a batch
AfterCancel_nextBatch(pc) == pc

AfterCancel(pc) == "after_loop"

BodyInit ==
    /\ fb_records \in DiscoveredRecords
    /\ fb_size \in 1..MaxFetchSize
    /\ fb_uid_map = <<>>
    /\ fb_mailbox = "INBOX"
    /\ fb_chunks = <<>>
    /\ fb_pc = "call"
    /\ fb_before = <<>>
    /\ fb_seen = {}
    /\ fb_warned = {}
    /\ fb_fetches = 0
    /\ fb_cancel = NoCancel
    /\ fb_pbar = 0

BodyIdle ==
    /\ fb_records = <<>>
    /\ fb_size = 1
    /\ fb_uid_map = <<>>
    /\ fb_mailbox = "INBOX"
    /\ fb_chunks = <<>>
    /\ fb_pc = "idle"
    /\ fb_before = <<>>
    /\ fb_seen = {}
    /\ fb_warned = {}
    /\ fb_fetches = 0
    /\ fb_cancel = NoCancel
    /\ fb_pbar = 0

\* fetch_emails.py 301-314: pbar.update(1) once per item of raw_data, for
\* the items without a record (lines 306-308) as for the others (312-314)
PbarUpdate(n, items) == n + items

\* fetch_emails.py 292-298: an empty record set is returned at once, else
\* the UID map is built
BodyCall ==
    /\ fb_pc = "call"
    /\ fb_before' = fb_records
    /\ IF Len(fb_records) = 0
       THEN /\ fb_pc' = "returned"
            /\ fb_uid_map' = fb_uid_map
       ELSE /\ fb_pc' = "loop"
            /\ fb_uid_map' = UidMap(fb_records, fb_records, {})
    /\ UNCHANGED <<fb_records, fb_size, fb_mailbox, fb_chunks, fb_seen, fb_warned,
                   fb_fetches, fb_cancel>>
    /\ UNCHANGED fb_pbar
    /\ UNCHANGED othersBody

\* imap.py 78-82, run by the for statement of line 298 outside the try: the
\* next mailbox is selected; a KeyboardInterrupt here is not caught
BodySelect ==
    /\ fb_pc = "loop"
    /\ fb_chunks = <<>>
    /\ fb_uid_map # <<>>
    /\ \/ /\ \E sel \in SelectResponses :
               fb_chunks' = IF select_mailbox(sel).ret
                            THEN Chunked(Head(fb_uid_map).uids, fb_size)
                            ELSE <<>>
          /\ fb_mailbox' = Head(fb_uid_map).mailbox
          /\ fb_uid_map' = Tail(fb_uid_map)
          /\ fb_pc' = fb_pc
       \/ /\ fb_pc' = "raised"
          /\ UNCHANGED <<fb_chunks, fb_mailbox, fb_uid_map>>
    /\ UNCHANGED <<fb_records, fb_size, fb_before, fb_seen, fb_warned, fb_fetches,
                   fb_cancel>>
    /\ UNCHANGED fb_pbar
    /\ UNCHANGED othersBody

\* fetch_emails.py 299-317: one batch.  fetch_raw_by_mailbox_and_uid_list
\* raises, which is not caught; or a KeyboardInterrupt comes before or
\* between the items, of which those of done were handled; or every item
\* is handled
BodyBatch ==
    /\ fb_pc = "loop"
    /\ fb_chunks # <<>>
    /\ fb_fetches' = fb_fetches + 1
    /\ \/ /\ fb_pc' = "raised"
          /\ UNCHANGED <<fb_records, fb_chunks, fb_seen, fb_warned, fb_cancel, fb_pbar>>
       \/ \E raw_data \in FetchResults, done \in SUBSET UIDs, cancelled \in BOOLEAN :
            /\ done \subseteq DOMAIN raw_data
            /\ ~cancelled => done = DOMAIN raw_data
            /\ fb_records' = StoreAllBodies(fb_records, fb_mailbox, done)
            /\ fb_seen' = fb_seen \cup {<<fb_mailbox, uid>> : uid \in done}
            /\ fb_pbar' = PbarUpdate(fb_pbar, Cardinality(done))
            /\ fb_warned' = fb_warned \cup
                 {<<fb_mailbox, uid>> : uid \in
                     {k \in done : GetEntry(fb_records, <<fb_mailbox, k>>).none}}
            /\ IF cancelled
               THEN /\ fb_pc' = AfterCancel(fb_pc)
                    /\ fb_chunks' = Tail(fb_chunks)
                    /\ fb_cancel' = [happened |-> TRUE, fetches |-> fb_fetches',
                                     stored |-> fb_seen' \cap EntryKeys(fb_records)]
               ELSE /\ fb_pc' = fb_pc
                    /\ fb_chunks' = Tail(fb_chunks)
                    /\ fb_cancel' = fb_cancel
    /\ UNCHANGED <<fb_size, fb_uid_map, fb_mailbox, fb_before>>
    /\ UNCHANGED othersBody

\* fetch_emails.py 298: the batches are used up
BodyLoopEnd ==
    /\ fb_pc = "loop"
    /\ fb_chunks = <<>>
    /\ fb_uid_map = <<>>
    /\ fb_pc' = "after_loop"
    /\ UNCHANGED <<fb_records, fb_size, fb_uid_map, fb_mailbox, fb_chunks, fb_before,
                   fb_seen, fb_warned, fb_fetches, fb_cancel>>
    /\ UNCHANGED fb_pbar
    /\ UNCHANGED othersBody

\* fetch_emails.py 319-330: the first record is logged, the dict returned
BodyDone ==
    /\ fb_pc = "after_loop"
    /\ fb_pc' = "returned"
    /\ UNCHANGED <<fb_records, fb_size, fb_uid_map, fb_mailbox, fb_chunks, fb_before,
                   fb_seen, fb_warned, fb_fetches, fb_cancel>>
    /\ UNCHANGED fb_pbar
    /\ UNCHANGED othersBody

(***************************************************************************)
(* The record mapping of one run of email_fetch_handler (core/handler.py   *)
(* 49-108): discovery, metadata fetch, ranking, body fetch and merge, each *)
(* by the operator of its own model above.                                 *)
(***************************************************************************)
\* fetch_emails.py 244 and 251: the items of the dict as the sort sees
\* them, under their position in the dict
RankItems(records) ==
    [i \in DOMAIN records |-> [key |-> i, internaldate |-> records[i].rec.internaldate]]

\* fetch_emails.py 260: dict(items)
RankedEntries(records, items) == [j \in DOMAIN items |-> records[items[j].key]]

PipeInit ==
    /\ pl_records = <<>>
    /\ pl_multi \in BOOLEAN
    /\ pl_shares = <<>>
    /\ pl_pc = "discover"
    /\ pl_n = 0
    /\ pl_joined = 0

PipeIdle ==
    /\ pl_records = <<>>
    /\ pl_multi = FALSE
    /\ pl_shares = <<>>
    /\ pl_pc = "idle"
    /\ pl_n = 0
    /\ pl_joined = 0

\* handler.py 95-100, fetch_emails.py 77-90: extract_uids over the two
\* mailboxes, each search reporting some UIDs
PipeDiscover ==
    /\ pl_pc = "discover"
    /\ \E a \in SeqsUpTo(UIDs, MaxFound), b \in SeqsUpTo(UIDs, MaxFound) :
         pl_records' = UpdateEntries(
                           UpdateEntries(<<>>, PrepareEmailRecords("INBOX", a, <<>>)),
                           PrepareEmailRecords("Sent", b, <<>>))
    /\ pl_pc' = "metadata"
    /\ UNCHANGED <<pl_multi, pl_shares, pl_n, pl_joined>>
    /\ UNCHANGED othersPipe

\* handler.py 103, fetch_emails.py 268-277: one batch of fetch_email_metadata
PipeMetadataBatch ==
    /\ pl_pc = "metadata"
    /\ pl_n < MaxPipeBatches
    /\ pl_n' = pl_n + 1
    /\ \E mailbox \in Mailboxes, fetch_data \in FetchResults, date \in {NoDate, 1} :
         pl_records' = StoreAllMetadata(pl_records, mailbox, fetch_data,
                                        DOMAIN fetch_data, date)
    /\ UNCHANGED <<pl_multi, pl_shares, pl_pc, pl_joined>>
    /\ UNCHANGED othersPipe

\* fetch_emails.py 279-284: fetch_email_metadata returns, or raises
\* StopIteration for an empty dict
PipeMetadataEnd ==
    /\ pl_pc = "metadata"
    /\ pl_pc' = IF pl_records = <<>> THEN "raised" ELSE "rank"
    /\ pl_n' = 0
    /\ UNCHANGED <<pl_records, pl_multi, pl_shares, pl_joined>>
    /\ UNCHANGED othersPipe

\* handler.py 105: filter_and_sort_records(email_records, "desc", mail_count)
PipeRank ==
    /\ pl_pc = "rank"
    /\ \E mail_count \in {NoLimit, [given |-> TRUE, n |-> 1]}, max_count \in 1..MaxSystemMax :
         LET out == FilterAndSortRecords(RankItems(pl_records), "desc", mail_count,
                                         max_count, [i \in DOMAIN pl_records |-> i])
         IN  IF out.raised
             THEN /\ pl_pc' = "raised"
                  /\ pl_records' = pl_records
             ELSE /\ pl_pc' = "split"
                  /\ pl_records' = RankedEntries(pl_records, out.items)
    /\ UNCHANGED <<pl_multi, pl_shares, pl_n, pl_joined>>
    /\ UNCHANGED othersPipe

\* handler.py 63-65 and 72-78: the dict itself in single mode, the shares
\* of split_evenly in multi mode
PipeSplit ==
    /\ pl_pc = "split"
    /\ IF pl_multi
       THEN \E n \in 1..MaxWorkers : pl_shares' = split_evenly(pl_records, n)
       ELSE pl_shares' = <<pl_records>>
    /\ pl_pc' = "body"
    /\ UNCHANGED <<pl_records, pl_multi, pl_n, pl_joined>>
    /\ UNCHANGED othersPipe

\* fetch_emails.py 299-314: one batch of the fetch_email_body of a share
PipeBodyBatch ==
    /\ pl_pc = "body"
    /\ pl_n < MaxPipeBatches
    /\ pl_n' = pl_n + 1
    /\ \E w \in DOMAIN pl_shares, mailbox \in Mailboxes, raw_data \in FetchResults :
         pl_shares' = [pl_shares EXCEPT ![w] =
                          StoreAllBodies(@, mailbox, DOMAIN raw_data)]
    /\ UNCHANGED <<pl_records, pl_multi, pl_pc, pl_joined>>
    /\ UNCHANGED othersPipe

\* fetch_emails.py 330: the body fetches return
PipeBodyEnd ==
    /\ pl_pc = "body"
    /\ pl_pc' = "merge"
    /\ UNCHANGED <<pl_records, pl_multi, pl_shares, pl_n, pl_joined>>
    /\ UNCHANGED othersPipe

\* handler.py 65: email_records = fetch_email_body(...); handler.py 79-82:
\* email_records.update(result) for the next share
PipeMerge ==
    /\ pl_pc = "merge"
    /\ pl_joined < Len(pl_shares)
    /\ pl_joined' = pl_joined + 1
    /\ pl_records' = IF pl_multi
                     THEN UpdateEntries(pl_records, pl_shares[pl_joined + 1])
                     ELSE pl_shares[pl_joined + 1]
    /\ pl_pc' = IF pl_joined' = Len(pl_shares) THEN "done" ELSE "merge"
    /\ UNCHANGED <<pl_multi, pl_shares, pl_n>>
    /\ UNCHANGED othersPipe

(***************************************************************************)
(* run (bootstrap.py 49-59) around a handler that works for some steps and *)
(* returns, or raises at one of them.                                      *)
(***************************************************************************)
\* what a handler can raise: two subclasses of Exception, and two classes
\* that derive from BaseException only
Raised == {"RuntimeError", "StopIteration", "KeyboardInterrupt", "SystemExit"}

\* bootstrap.py 54: "except Exception" matches the subclasses of Exception
Caught_nothing(e) == FALSE

Caught(e) == e \in {"RuntimeError", "StopIteration"}

RunInit ==
    /\ run_seconds \in 0..MaxDelay
    /\ run_work \in 0..MaxWork
    /\ run_pc = "try"
    /\ run_outcome = "running"
    /\ run_pending = "none"
    /\ run_from = "none"
    /\ run_delays = 0
    /\ run_slept = 0
    /\ run_errors = 0

RunIdle ==
    /\ run_seconds = 0
    /\ run_work = 0
    /\ run_pc = "idle"
    /\ run_outcome = "running"
    /\ run_pending = "none"
    /\ run_from = "none"
    /\ run_delays = 0
    /\ run_slept = 0
    /\ run_errors = 0

\* bootstrap.py 50-53: the name is taken, the start is logged, the handler
\* is called
RunCall ==
    /\ run_pc = "try"
    /\ run_pc' = "handler"
    /\ UNCHANGED <<run_seconds, run_work, run_outcome, run_pending, run_from,
                   run_delays, run_slept, run_errors>>
    /\ UNCHANGED othersRun

\* bootstrap.py 53: the handler takes a step
HandlerWork ==
    /\ run_pc = "handler"
    /\ run_work > 0
    /\ run_work' = run_work - 1
    /\ UNCHANGED <<run_seconds, run_pc, run_outcome, run_pending, run_from,
                   run_delays, run_slept, run_errors>>
    /\ UNCHANGED othersRun

\* bootstrap.py 53: the handler returns
HandlerReturn ==
    /\ run_pc = "handler"
    /\ run_work = 0
    /\ run_outcome' = "returned"
    /\ run_pc' = "finally"
    /\ UNCHANGED <<run_seconds, run_work, run_pending, run_from, run_delays,
                   run_slept, run_errors>>
    /\ UNCHANGED othersRun

\* bootstrap.py 53-54: the handler raises e, which the except clause
\* catches or not
HandlerRaise ==
    /\ run_pc = "handler"
    /\ \E e \in Raised :
         /\ run_outcome' = e
         /\ run_pending' = e
         /\ run_from' = "handler"
         /\ run_pc' = IF Caught(e) THEN "except" ELSE "finally"
    /\ UNCHANGED <<run_seconds, run_work, run_delays, run_slept, run_errors>>
    /\ UNCHANGED othersRun

\* bootstrap.py 55-56: the error is logged, the exception is done with
RunExcept ==
    /\ run_pc = "except"
    /\ run_errors' = run_errors + 1
    /\ run_pending' = "none"
    /\ run_from' = "none"
    /\ run_pc' = "finally"
    /\ UNCHANGED <<run_seconds, run_work, run_outcome, run_delays, run_slept>>
    /\ UNCHANGED othersRun

\* bootstrap.py 58-59 and 19-23: the end is logged and
\* _auto_exit_after_delay is called, which sleeps only for seconds > 0
RunFinally ==
    /\ run_pc = "finally"
    /\ run_delays' = run_delays + 1
    /\ run_pc' = "sleep"
    /\ UNCHANGED <<run_seconds, run_work, run_outcome, run_pending, run_from,
                   run_slept, run_errors>>
    /\ UNCHANGED othersRun

\* bootstrap.py 24-26: time.sleep(1), which a KeyboardInterrupt can end
DelaySleep ==
    /\ run_pc = "sleep"
    /\ run_slept < run_seconds
    /\ \/ /\ run_slept' = run_slept + 1
          /\ UNCHANGED <<run_pc, run_pending, run_from>>
       \/ /\ run_pending' = "KeyboardInterrupt"
          /\ run_from' = "delay"
          /\ run_pc' = "raised"
          /\ run_slept' = run_slept
    /\ UNCHANGED <<run_seconds, run_work, run_outcome, run_delays, run_errors>>
    /\ UNCHANGED othersRun

\* bootstrap.py 28 and 59: the delay is over; the finally clause ends and
\* an exception that was not caught goes on
RunEnd ==
    /\ run_pc = "sleep"
    /\ run_slept = run_seconds
    /\ run_pc' = IF run_pending = "none" THEN "returned" ELSE "raised"
    /\ UNCHANGED <<run_seconds, run_work, run_outcome, run_pending, run_from,
                   run_delays, run_slept, run_errors>>
    /\ UNCHANGED othersRun

(***************************************************************************)
(* The SINCE date of the search: EnvConfig.since_days_ago (env_config.py   *)
(* 41-43), _extract_email_uids (core/handler.py 99) and                    *)
(* _get_imap_date_criteria_dict, _build_search_criteria (fetch_emails.py   *)
(* 101-164).  Days are counted from 1 Jan 2023 = day 0.                    *)
(***************************************************************************)
EpochYear == 2023

MonthNames ==
    <<"Jan", "Feb", "Mar", "Apr", "May", "Jun", "Jul", "Aug", "Sep", "Oct", "Nov", "Dec">>

IsLeap(y) == (y % 4 = 0 /\ y % 100 # 0) \/ y % 400 = 0

DaysInYear(y) == IF IsLeap(y) THEN 366 ELSE 365

DaysInMonth(y, mo) ==
    IF mo = 2 THEN (IF IsLeap(y) THEN 29 ELSE 28)
    ELSE IF mo \in {4, 6, 9, 11} THEN 30 ELSE 31

\* the date of day n of year y (n = 0 is 1 Jan), from month mo on
RECURSIVE DateInYear(_, _, _)
DateInYear(y, mo, n) ==
    IF n < DaysInMonth(y, mo) THEN [d |-> n + 1, b |-> MonthNames[mo], Y |-> y]
    ELSE DateInYear(y, mo + 1, n - DaysInMonth(y, mo))

\* fetch_emails.py 158: strftime("%d-%b-%Y") of day n, from year y on
RECURSIVE FormatImapDate(_, _)
FormatImapDate(y, n) ==
    IF n < DaysInYear(y) THEN DateInYear(y, 1, n)
    ELSE FormatImapDate(y + 1, n - DaysInYear(y))

\* the day a date text names
RECURSIVE DaysBeforeYear(_)
DaysBeforeYear(y) == IF y = EpochYear THEN 0 ELSE DaysBeforeYear(y - 1) + DaysInYear(y - 1)

RECURSIVE DaysBeforeMonth(_, _)
DaysBeforeMonth(y, mo) ==
    IF mo = 1 THEN 0 ELSE DaysBeforeMonth(y, mo - 1) + DaysInMonth(y, mo - 1)

DayOf(text) ==
    LET mo == CHOOSE i \in DOMAIN MonthNames : MonthNames[i] = text.b
    IN  DaysBeforeYear(text.Y) + DaysBeforeMonth(text.Y, mo) + text.d - 1

\* 27 Feb 2024 and the days after it
FirstToday == 422

Todays == {FirstToday + k : k \in 0..MaxToday}

NoEnv == [set |-> FALSE, n |-> 0]

\* env_config.py 43: int(os.environ.get('SINCE_DAYS_AGO', '1'))
since_days_ago(env) == IF env.set THEN env.n ELSE 1

\* handler.py 99: since_days=-EnvConfig.since_days_ago()
SinceDays_asConfigured(value) == value

SinceDays(value) == -value

NoDateText == [d |-> 0, b |-> "", Y |-> 0]

SinceInit ==
    /\ since_env \in {NoEnv} \cup {[set |-> TRUE, n |-> k] : k \in -MaxDays..MaxDays}
    /\ since_today \in Todays
    /\ since_pc = "config"
    /\ since_days = 0
    /\ since_text = NoDateText
    /\ since_criteria = <<>>

SinceIdle ==
    /\ since_env = NoEnv
    /\ since_today = 0
    /\ since_pc = "idle"
    /\ since_days = 0
    /\ since_text = NoDateText
    /\ since_criteria = <<>>

\* handler.py 96-100: the argument since_days of extract_uids
SinceConfig ==
    /\ since_pc = "config"
    /\ since_days' = SinceDays(since_days_ago(since_env))
    /\ since_pc' = "date"
    /\ UNCHANGED <<since_env, since_today, since_text, since_criteria>>
    /\ UNCHANGED othersSince

\* fetch_emails.py 73 and 156-162: datetime.now() + timedelta(days=since_days)
\* as text
SinceDate ==
    /\ since_pc = "date"
    /\ since_text' = FormatImapDate(EpochYear, since_today + since_days)
    /\ since_pc' = "criteria"
    /\ UNCHANGED <<since_env, since_today, since_days, since_criteria>>
    /\ UNCHANGED othersSince

\* fetch_emails.py 74 and 113-114: criteria += ["SINCE", since]
SinceCriteria ==
    /\ since_pc = "criteria"
    /\ since_criteria' = <<"SINCE", since_text>>
    /\ since_pc' = "done"
    /\ UNCHANGED <<since_env, since_today, since_days, since_text>>
    /\ UNCHANGED othersSince

(***************************************************************************)
(* encode_to_utf7 and decode_from_utf7 (util.py 189-207), one round trip.  *)
(* Display names are written over the characters "a", "b" and "-"          *)
(* (printable ASCII), "&", and "U" (a character outside ASCII, whose       *)
(* base64 digits are written "b").                                         *)
(***************************************************************************)
DisplayChars == {"a", "b", "-", "&", "U"}

DisplayNames == SeqsUpTo(DisplayChars, MaxNameLen)

\* the characters that a run of base64 digits stands for
Unbase64(digits) == [i \in DOMAIN digits |-> IF digits[i] = "b" THEN "U" ELSE "?"]

\* util.py 200-207: decode_from_utf7; open says that "&" began a run, whose
\* digits so far are digits
RECURSIVE Utf7DecodeFrom(_, _, _)
Utf7DecodeFrom(wire, open, digits) ==
    IF wire = <<>> THEN (IF open THEN Unbase64(digits) ELSE <<>>)
    ELSE IF Head(wire) = "&" /\ ~open THEN Utf7DecodeFrom(Tail(wire), TRUE, <<>>)
    ELSE IF Head(wire) = "-" /\ open
    THEN (IF digits = <<>> THEN <<"&">> ELSE Unbase64(digits))
            \o Utf7DecodeFrom(Tail(wire), FALSE, <<>>)
    ELSE IF open THEN Utf7DecodeFrom(Tail(wire), TRUE, Append(digits, Head(wire)))
    ELSE <<Head(wire)>> \o Utf7DecodeFrom(Tail(wire), FALSE, <<>>)

DecodeFromUtf7(text) == Utf7DecodeFrom(text, FALSE, <<>>)

Utf7Init ==
    /\ utf_name \in DisplayNames
    /\ utf_wire = <<>>
    /\ utf_back = <<>>
    /\ utf_pc = "encode"

Utf7Idle ==
    /\ utf_name = <<>>
    /\ utf_wire = <<>>
    /\ utf_back = <<>>
    /\ utf_pc = "idle"

\* util.py 189-196
Utf7Encode ==
    /\ utf_pc = "encode"
    /\ utf_wire' = EncodeToUtf7(utf_name)
    /\ utf_pc' = "decode"
    /\ UNCHANGED <<utf_name, utf_back>>
    /\ UNCHANGED othersUtf7

\* util.py 200-207
Utf7Decode ==
    /\ utf_pc = "decode"
    /\ utf_back' = DecodeFromUtf7(utf_wire)
    /\ utf_pc' = "done"
    /\ UNCHANGED <<utf_name, utf_wire>>
    /\ UNCHANGED othersUtf7

(***************************************************************************)
(* FernetCipher (app_config/fernet_cipher.py 11-53).  A Fernet token is    *)
(* written as the key that signed it, the initialisation vector and the    *)
(* encrypted bytes with the key that encrypted them; a text is a sequence  *)
(* of the characters "a" (ASCII) and "e'" (two bytes in UTF-8).            *)
(***************************************************************************)
KeyPaths == {"secret.key", "other.key"}

Keys == 1..MaxKeys

NoKey == 0

TextChars == {"a", "e'"}

Texts == SeqsUpTo(TextChars, MaxTextLen)

\* fernet_cipher.py 40: plain_text.encode(), the UTF-8 bytes of the text
RECURSIVE PlainBytes_asciiOnly(_)
PlainBytes_asciiOnly(text) ==
    IF text = <<>> THEN <<>>
    ELSE (IF Head(text) = "a" THEN <<97>> ELSE <<>>) \o PlainBytes_asciiOnly(Tail(text))

RECURSIVE PlainBytes(_)
PlainBytes(text) ==
    IF text = <<>> THEN <<>>
    ELSE (IF Head(text) = "a" THEN <<97>> ELSE <<195, 169>>) \o PlainBytes(Tail(text))

\* fernet_cipher.py 47: bytes.decode(), which raises on bytes that are not
\* UTF-8
RECURSIVE DecodeBytes(_)
DecodeBytes(bytes) ==
    IF bytes = <<>> THEN [raised |-> FALSE, text |-> <<>>]
    ELSE IF Head(bytes) = 97
    THEN LET rest == DecodeBytes(Tail(bytes))
         IN  [raised |-> rest.raised, text |-> <<"a">> \o rest.text]
    ELSE IF Head(bytes) = 195 /\ Len(bytes) >= 2 /\ bytes[2] = 169
    THEN LET rest == DecodeBytes(Tail(Tail(bytes)))
         IN  [raised |-> rest.raised, text |-> <<"e'">> \o rest.text]
    ELSE [raised |-> TRUE, text |-> <<>>]

\* fernet_cipher.py 40: Fernet.encrypt with a fresh initialisation vector
FernetEncrypt(key, iv, data) ==
    [signed_by |-> key, iv |-> iv, encrypted_by |-> key, data |-> data]

\* fernet_cipher.py 47: Fernet.decrypt raises InvalidToken unless the
\* signature is that of its key
FernetDecrypt(key, token) ==
    IF token.signed_by # key \/ token.encrypted_by # key
    THEN [raised |-> TRUE, data |-> <<>>]
    ELSE [raised |-> FALSE, data |-> token.data]

\* fernet_cipher.py 26-36: the key of the file, or a new one that is written
\* to the file
LoadOrCreateKey(files, key_path, fresh) ==
    IF files[key_path] # NoKey THEN files[key_path] ELSE fresh

NoToken == [signed_by |-> NoKey, iv |-> 0, encrypted_by |-> NoKey, data |-> <<>>]

NoOutcome == [raised |-> FALSE, text |-> <<>>]

CipherInit ==
    /\ fc_files \in [KeyPaths -> Keys \cup {NoKey}]
    /\ fc_instances = [p \in KeyPaths |-> NoKey]
    /\ fc_plain = <<>>
    /\ fc_token = NoToken
    /\ fc_by = ""
    /\ fc_out = NoOutcome
    /\ fc_with = ""
    /\ fc_pc = "encrypt"

CipherIdle ==
    /\ fc_files = [p \in KeyPaths |-> NoKey]
    /\ fc_instances = [p \in KeyPaths |-> NoKey]
    /\ fc_plain = <<>>
    /\ fc_token = NoToken
    /\ fc_by = ""
    /\ fc_out = NoOutcome
    /\ fc_with = ""
    /\ fc_pc = "idle"

\* fernet_cipher.py 14-36: an instance is made for a key path that has none
CipherGetInstance ==
    /\ fc_pc \in {"encrypt", "decrypt"}
    /\ \E key_path \in KeyPaths, fresh \in Keys :
         /\ fc_instances[key_path] = NoKey
         /\ LET key == LoadOrCreateKey(fc_files, key_path, fresh)
            IN  /\ fc_instances' = [fc_instances EXCEPT ![key_path] = key]
                /\ fc_files' = [fc_files EXCEPT ![key_path] = key]
    /\ UNCHANGED <<fc_plain, fc_token, fc_by, fc_out, fc_with, fc_pc>>
    /\ UNCHANGED othersCipher

\* the key file of an instance is replaced behind its back
CipherKeyFileReplaced ==
    /\ fc_pc = "decrypt"
    /\ \E key_path \in KeyPaths, key \in Keys :
         /\ fc_files[key_path] # key
         /\ fc_files' = [fc_files EXCEPT ![key_path] = key]
    /\ UNCHANGED <<fc_instances, fc_plain, fc_token, fc_by, fc_out, fc_with, fc_pc>>
    /\ UNCHANGED othersCipher

\* fernet_cipher.py 38-43
CipherEncrypt ==
    /\ fc_pc = "encrypt"
    /\ \E key_path \in KeyPaths, plain_text \in Texts, iv \in 1..MaxIv :
         /\ fc_instances[key_path] # NoKey
         /\ fc_plain' = plain_text
         /\ fc_by' = key_path
         /\ fc_token' = FernetEncrypt(fc_instances[key_path], iv, PlainBytes(plain_text))
    /\ fc_pc' = "decrypt"
    /\ UNCHANGED <<fc_files, fc_instances, fc_out, fc_with>>
    /\ UNCHANGED othersCipher

\* fernet_cipher.py 45-53
CipherDecrypt ==
    /\ fc_pc = "decrypt"
    /\ \E key_path \in KeyPaths :
         /\ fc_instances[key_path] # NoKey
         /\ fc_with' = key_path
         /\ LET plain == FernetDecrypt(fc_instances[key_path], fc_token)
            IN  fc_out' = IF plain.raised THEN [raised |-> TRUE, text |-> <<>>]
                          ELSE DecodeBytes(plain.data)
    /\ fc_pc' = "done"
    /\ UNCHANGED <<fc_files, fc_instances, fc_plain, fc_token, fc_by>>
    /\ UNCHANGED othersCipher

(***************************************************************************)
(* _iter_mailbox_batches (core/fetch_emails.py 42-60) and                  *)
(* iter_mailbox_batches_from_uid_map (core/imap.py 57-83), run to the end. *)
(***************************************************************************)
BatchUids == 1..MaxBatchUid

\* the UID lists a mailbox can have in the dict: no UID twice
UidLists ==
    {l \in SeqsUpTo(BatchUids, MaxBatchUid) :
        \A i \in DOMAIN l, j \in DOMAIN l : l[i] = l[j] => i = j}

EntriesIn(mailbox, uids) ==
    [i \in DOMAIN uids |-> NewEntry(mailbox, uids[i])]

BatchInit ==
    /\ \E a \in UidLists, b \in UidLists :
         bt_records \in {EntriesIn("INBOX", a) \o EntriesIn("Sent", b),
                         EntriesIn("Sent", b) \o EntriesIn("INBOX", a)}
    /\ bt_size \in 1..MaxFetchSize
    /\ bt_uid_map = <<>>
    /\ bt_mailbox = "INBOX"
    /\ bt_chunks = <<>>
    /\ bt_pc = "call"
    /\ bt_out = <<>>
    /\ bt_selects = <<>>

BatchIdle ==
    /\ bt_records = <<>>
    /\ bt_size = 1
    /\ bt_uid_map = <<>>
    /\ bt_mailbox = "INBOX"
    /\ bt_chunks = <<>>
    /\ bt_pc = "idle"
    /\ bt_out = <<>>
    /\ bt_selects = <<>>

\* fetch_emails.py 56-60: the UID map is built and handed on
BatchCall ==
    /\ bt_pc = "call"
    /\ bt_uid_map' = UidMap(bt_records, bt_records, {})
    /\ bt_pc' = "loop"
    /\ UNCHANGED <<bt_records, bt_size, bt_mailbox, bt_chunks, bt_out, bt_selects>>
    /\ UNCHANGED othersBatch

\* imap.py 78-80: select_mailbox(imap, mailbox, readonly=True) for the next
\* mailbox, which returns False (continue) or True
BatchSelect ==
    /\ bt_pc = "loop"
    /\ bt_chunks = <<>>
    /\ bt_uid_map # <<>>
    /\ \E sel \in SelectResponses :
         /\ bt_selects' = Append(bt_selects,
                                 [mailbox |-> Head(bt_uid_map).mailbox,
                                  readonly |-> TRUE,
                                  ok |-> select_mailbox(sel).ret])
         /\ bt_chunks' = IF select_mailbox(sel).ret
                         THEN Chunked(Head(bt_uid_map).uids, bt_size)
                         ELSE <<>>
    /\ bt_mailbox' = Head(bt_uid_map).mailbox
    /\ bt_uid_map' = Tail(bt_uid_map)
    /\ UNCHANGED <<bt_records, bt_size, bt_pc, bt_out>>
    /\ UNCHANGED othersBatch

\* imap.py 82-83: yield (mailbox, uid_batch)
BatchYield ==
    /\ bt_pc = "loop"
    /\ bt_chunks # <<>>
    /\ bt_out' = Append(bt_out, [mailbox |-> bt_mailbox, uids |-> Head(bt_chunks)])
    /\ bt_chunks' = Tail(bt_chunks)
    /\ UNCHANGED <<bt_records, bt_size, bt_uid_map, bt_mailbox, bt_pc, bt_selects>>
    /\ UNCHANGED othersBatch

\* imap.py 78: the mailboxes are used up
BatchEnd ==
    /\ bt_pc = "loop"
    /\ bt_chunks = <<>>
    /\ bt_uid_map = <<>>
    /\ bt_pc' = "done"
    /\ UNCHANGED <<bt_records, bt_size, bt_uid_map, bt_mailbox, bt_chunks, bt_out,
                   bt_selects>>
    /\ UNCHANGED othersBatch

(***************************************************************************)
(* The commands of one session through a single-thread run of              *)
(* email_fetch_handler (core/handler.py 59-65 and 92-108): login, the      *)
(* mailbox list, discovery, metadata fetch, ranking, body fetch, logout.   *)
(***************************************************************************)
\* a command as the server sees it; uids is the UID set of a fetch
Command(name, readonly, items, mailbox, uids) ==
    [name |-> name, readonly |-> readonly, items |-> items, mailbox |-> mailbox,
     uids |-> uids]

Login == Command("login", FALSE, "", "", {})
List == Command("list", FALSE, "", "", {})
Search == Command("search", FALSE, "", "", {})
Logout == Command("logout", FALSE, "", "", {})

\* imap.py 139: imap.select(mailbox, readonly=readonly); select_mailbox is
\* called with readonly=True at imap.py 79 and 171 and fetch_emails.py 80
Select_readWrite(mailbox) == Command("select", FALSE, "", mailbox, {})

Select(mailbox) == Command("select", TRUE, "", mailbox, {})

\* imap.py 182: imap.uid("fetch", uid_str, items)
Fetch(items, mailbox, uids) == Command("fetch", FALSE, items, mailbox, uids)

\* the answers to SELECT that differ for the caller or for the server: OK
\* with and without messages, and NO
SessionSelects == {r \in SelectResponses : r.exists <= 1 /\ r.kind \in {"OK", "NO"}}

\* the regular answers: SELECT of a mailbox that holds messages, SEARCH
\* answered OK, FETCH answered with the messages asked for; the others are
\* counted, and a session sees at most MaxFaults of them
Faults(sel, others) == (IF select_mailbox(sel).ret THEN 0 ELSE 1) + others

Irregular(raw_data, uids) == IF DOMAIN raw_data = uids THEN 0 ELSE 1

\* the answers to SEARCH: a server lists each UID once, in ascending order
SessionSearches ==
    {r \in SearchResponses :
        \A i \in DOMAIN r.uids, j \in DOMAIN r.uids : i < j => r.uids[i] < r.uids[j]}

\* the answers to FETCH whose items all hold a "UID n"
SessionResults == {r \in FetchResults : \A k \in DOMAIN r : r[k].uid # 0}

\* the mailbox selected on the server after SELECT was answered by resp: a
\* SELECT that fails leaves no mailbox selected
SelectedAfter(resp, mailbox) == IF resp.kind = "OK" THEN mailbox ELSE "none"

\* the mailbox lists the resolver can hand over
TargetLists ==
    {l \in SeqsUpTo(Mailboxes, MaxBoxes) :
        \A i \in DOMAIN l, j \in DOMAIN l : l[i] = l[j] => i = j}

\* imap.py 171: the mailbox that fetch_raw_by_mailbox_and_uid_list selects
\* is the one it was given
FetchMailbox_inbox(mailbox) == "INBOX"

FetchMailbox(mailbox) == mailbox

\* handler.py 105 and fetch_emails.py 244-260 on the entries of the dict
RankedRecords(records, mail_count, max_count) ==
    LET out == FilterAndSortRecords(RankItems(records), "desc", mail_count, max_count,
                                    [i \in DOMAIN records |-> i])
    IN  [raised |-> out.raised, records |-> RankedEntries(records, out.items)]

\* run_fetch_mails.py 23: args.count or None
MailCounts == {NoLimit} \cup {[given |-> TRUE, n |-> k] : k \in {-1, 1}}

SessionInit ==
    /\ ss_pc = "login"
    /\ ss_raised = FALSE
    /\ ss_todo = <<>>
    /\ ss_records = <<>>
    /\ ss_size \in 1..MaxFetchSize
    /\ ss_max = 0
    /\ ss_uid_map = <<>>
    /\ ss_mailbox = "INBOX"
    /\ ss_chunks = <<>>
    /\ ss_selected = "none"
    /\ ss_cmds = {}
    /\ ss_writes = {}
    /\ ss_found = {}
    /\ ss_ranked = {}
    /\ ss_faults = 0

SessionIdle ==
    /\ ss_pc = "idle"
    /\ ss_raised = FALSE
    /\ ss_todo = <<>>
    /\ ss_records = <<>>
    /\ ss_size = 1
    /\ ss_max = 0
    /\ ss_uid_map = <<>>
    /\ ss_mailbox = "INBOX"
    /\ ss_chunks = <<>>
    /\ ss_selected = "none"
    /\ ss_cmds = {}
    /\ ss_writes = {}
    /\ ss_found = {}
    /\ ss_ranked = {}
    /\ ss_faults = 0

\* imap.py 37-41: connect and login
SessionLogin ==
    /\ ss_pc = "login"
    /\ ss_cmds' = ss_cmds \cup {Login}
    /\ ss_pc' = "resolve"
    /\ UNCHANGED <<ss_raised, ss_todo, ss_records, ss_size, ss_max, ss_uid_map,
                   ss_mailbox, ss_chunks, ss_selected, ss_writes, ss_found, ss_ranked, ss_faults>>
    /\ UNCHANGED othersSession

\* handler.py 94-98, imap.py 259-262 and fetch_emails.py 77:
\* collect_target_mailboxes asks for the list when no target is configured,
\* and extract_uids asks for it when it is given no mailbox
SessionResolve ==
    /\ ss_pc = "resolve"
    /\ \E resolved \in TargetLists, configured \in BOOLEAN, listed \in TargetLists :
         /\ ss_cmds' = IF ~configured \/ resolved = <<>>
                       THEN ss_cmds \cup {List} ELSE ss_cmds
         /\ ss_todo' = IF resolved = <<>> THEN listed ELSE resolved
    /\ ss_pc' = "discover"
    /\ UNCHANGED <<ss_raised, ss_records, ss_size, ss_max, ss_uid_map, ss_mailbox,
                   ss_chunks, ss_selected, ss_writes, ss_found, ss_ranked, ss_faults>>
    /\ UNCHANGED othersSession

\* fetch_emails.py 78-88: one pass of the loop of extract_uids
SessionDiscover ==
    /\ ss_pc = "discover"
    /\ ss_todo # <<>>
    /\ LET mailbox == Head(ss_todo)
       IN  \E sel \in SessionSelects, srch \in SessionSearches :
             /\ ss_selected' = SelectedAfter(sel, mailbox)
             /\ ss_todo' = Tail(ss_todo)
             /\ ss_faults' = ss_faults
                   + Faults(sel, IF select_mailbox(sel).ret /\ srch.status # "OK"
                                 THEN 1 ELSE 0)
             /\ ss_faults' <= MaxFaults
             /\ ~select_mailbox(sel).ret => srch = [status |-> "OK", uids |-> <<>>]
             /\ IF ~select_mailbox(sel).ret
                THEN /\ ss_cmds' = ss_cmds \cup {Select(mailbox)}
                     /\ UNCHANGED <<ss_pc, ss_raised, ss_records, ss_found>>
                ELSE /\ ss_cmds' = ss_cmds \cup {Select(mailbox), Search}
                     /\ IF srch.status # "OK"
                        THEN /\ ss_pc' = "logout"
                             /\ ss_raised' = TRUE
                             /\ UNCHANGED <<ss_records, ss_found>>
                        ELSE /\ ss_records' =
                                  UpdateEntries(ss_records,
                                      PrepareEmailRecords(mailbox, srch.uids, <<>>))
                             /\ ss_found' = ss_found
                                  \cup {<<mailbox, srch.uids[k]>> : k \in DOMAIN srch.uids}
                             /\ UNCHANGED <<ss_pc, ss_raised>>
    /\ UNCHANGED <<ss_size, ss_max, ss_uid_map, ss_mailbox, ss_chunks, ss_writes,
                   ss_ranked>>
    /\ UNCHANGED othersSession

\* fetch_emails.py 89 and 267, 56-60: extract_uids returns and
\* fetch_email_metadata builds its UID map
SessionDiscoverEnd ==
    /\ ss_pc = "discover"
    /\ ss_todo = <<>>
    /\ ss_pc' = "metadata"
    /\ ss_uid_map' = UidMap(ss_records, ss_records, {})
    /\ UNCHANGED <<ss_raised, ss_todo, ss_records, ss_size, ss_max, ss_mailbox,
                   ss_chunks, ss_selected, ss_cmds, ss_writes, ss_found, ss_ranked, ss_faults>>
    /\ UNCHANGED othersSession

\* imap.py 78-82: the batch iterator selects the next mailbox
SessionIterSelect ==
    /\ ss_pc \in {"metadata", "body"}
    /\ ss_chunks = <<>>
    /\ ss_uid_map # <<>>
    /\ LET mailbox == Head(ss_uid_map).mailbox
       IN  \E sel \in SessionSelects :
             /\ ss_cmds' = ss_cmds \cup {Select(mailbox)}
             /\ ss_selected' = SelectedAfter(sel, mailbox)
             /\ ss_chunks' = IF select_mailbox(sel).ret
                             THEN Chunked(Head(ss_uid_map).uids, ss_size)
                             ELSE <<>>
             /\ ss_mailbox' = mailbox
             /\ ss_faults' = ss_faults + Faults(sel, 0)
             /\ ss_faults' <= MaxFaults
    /\ ss_uid_map' = Tail(ss_uid_map)
    /\ UNCHANGED <<ss_pc, ss_raised, ss_todo, ss_records, ss_size, ss_max, ss_writes,
                   ss_found, ss_ranked>>
    /\ UNCHANGED othersSession

\* fetch_emails.py 268-277 and 299-314, imap.py 170-212: one batch.
\* fetch_raw_by_mailbox_and_uid_list selects its mailbox and returns {} when
\* that fails; else it fetches, which raises or hands over raw_data, whose
\* items are stored
SessionBatch ==
    /\ ss_pc \in {"metadata", "body"}
    /\ ss_chunks # <<>>
    /\ ss_chunks' = Tail(ss_chunks)
    /\ LET mailbox == FetchMailbox(ss_mailbox)
           uids == Range(Head(ss_chunks))
           items == IF ss_pc = "metadata" THEN "HEADER" ELSE "RFC822"
       IN  \E sel \in SessionSelects :
             /\ ss_selected' = SelectedAfter(sel, mailbox)
             /\ IF ~select_mailbox(sel).ret
                THEN /\ ss_cmds' = ss_cmds \cup {Select(mailbox)}
                     /\ ss_faults' = ss_faults + 1
                     /\ UNCHANGED <<ss_pc, ss_raised, ss_records, ss_writes>>
                ELSE /\ ss_cmds' = ss_cmds
                          \cup {Select(mailbox), Fetch(items, mailbox, uids)}
                     /\ \/ /\ ss_pc' = "logout"
                           /\ ss_raised' = TRUE
                           /\ ss_faults' = ss_faults + 1
                           /\ UNCHANGED <<ss_records, ss_writes>>
                        \/ \E raw_data \in SessionResults :
                             /\ ss_records' =
                                  IF ss_pc = "metadata"
                                  THEN StoreAllMetadata(ss_records, ss_mailbox, raw_data,
                                                        DOMAIN raw_data, 1)
                                  ELSE StoreAllBodies(ss_records, ss_mailbox,
                                                      DOMAIN raw_data)
                             /\ ss_writes' = ss_writes \cup
                                  {[from |-> ss_selected', key |-> <<ss_mailbox, k>>] :
                                     k \in {u \in DOMAIN raw_data :
                                              ss_pc = "body"
                                                  => <<ss_mailbox, u>> \in EntryKeys(ss_records)}}
                             /\ ss_faults' = ss_faults + Irregular(raw_data, uids)
                             /\ UNCHANGED <<ss_pc, ss_raised>>
             /\ ss_faults' <= MaxFaults
    /\ UNCHANGED <<ss_todo, ss_size, ss_max, ss_uid_map, ss_mailbox, ss_found,
                   ss_ranked>>
    /\ UNCHANGED othersSession

\* fetch_emails.py 279-284: the metadata fetch is over; next(iter(...))
\* raises StopIteration when there is no record
SessionMetadataEnd ==
    /\ ss_pc = "metadata"
    /\ ss_chunks = <<>>
    /\ ss_uid_map = <<>>
    /\ IF ss_records = <<>>
       THEN /\ ss_pc' = "logout"
            /\ ss_raised' = TRUE
       ELSE /\ ss_pc' = "rank"
            /\ ss_raised' = ss_raised
    /\ UNCHANGED <<ss_todo, ss_records, ss_size, ss_max, ss_uid_map, ss_mailbox,
                   ss_chunks, ss_selected, ss_cmds, ss_writes, ss_found, ss_ranked, ss_faults>>
    /\ UNCHANGED othersSession

\* handler.py 105 and 63-65, fetch_emails.py 292-298: ranking, which may
\* raise; fetch_email_body returns at once when no record is left, else it
\* builds its UID map
SessionRank ==
    /\ ss_pc = "rank"
    /\ \E mail_count \in MailCounts, max_count \in 1..MaxSystemMax :
         LET out == RankedRecords(ss_records, mail_count, max_count)
         IN  /\ ss_max' = max_count
             /\ IF out.raised
                THEN /\ ss_pc' = "logout"
                     /\ ss_raised' = TRUE
                     /\ UNCHANGED <<ss_records, ss_ranked, ss_uid_map>>
                ELSE /\ ss_records' = out.records
                     /\ ss_ranked' = EntryKeys(out.records)
                     /\ ss_uid_map' = UidMap(out.records, out.records, {})
                     /\ ss_pc' = IF out.records = <<>> THEN "logout" ELSE "body"
                     /\ ss_raised' = ss_raised
    /\ UNCHANGED <<ss_todo, ss_size, ss_mailbox, ss_chunks, ss_selected,
                   ss_cmds, ss_writes, ss_found, ss_faults>>
    /\ UNCHANGED othersSession

\* fetch_emails.py 319-330: the body fetch is over
SessionBodyEnd ==
    /\ ss_pc = "body"
    /\ ss_chunks = <<>>
    /\ ss_uid_map = <<>>
    /\ ss_pc' = "logout"
    /\ UNCHANGED <<ss_raised, ss_todo, ss_records, ss_size, ss_max, ss_uid_map,
                   ss_mailbox, ss_chunks, ss_selected, ss_cmds, ss_writes, ss_found,
                   ss_ranked, ss_faults>>
    /\ UNCHANGED othersSession

\* imap.py 50-54: the finally clause of connect_and_login_imap logs out
SessionLogout ==
    /\ ss_pc = "logout"
    /\ ss_cmds' = ss_cmds \cup {Logout}
    /\ ss_selected' = "none"
    /\ ss_pc' = "done"
    /\ UNCHANGED <<ss_raised, ss_todo, ss_records, ss_size, ss_max, ss_uid_map,
                   ss_mailbox, ss_chunks, ss_writes, ss_found, ss_ranked, ss_faults>>
    /\ UNCHANGED othersSession

(***************************************************************************)
(* The body fetch of a ranked record set by SPLIT_WORKERS workers          *)
(* (core/handler.py 67-82) next to the body fetch of the same set by the   *)
(* caller alone (handler.py 63-65), against a server that gives the same   *)
(* answer whenever it is asked the same thing and never fails a fetch.     *)
(***************************************************************************)
\* fetch_emails.py 298, imap.py 78-83: the batches of a record set, those of
\* a mailbox whose select fails left out
RECURSIVE BatchesFrom(_, _, _)
BatchesFrom(uid_map, size, selectable) ==
    IF uid_map = <<>> THEN <<>>
    ELSE LET chunks == IF Head(uid_map).mailbox \in selectable
                       THEN Chunked(Head(uid_map).uids, size)
                       ELSE <<>>
         IN  [i \in DOMAIN chunks |->
                 [mailbox |-> Head(uid_map).mailbox, uids |-> chunks[i]]]
                \o BatchesFrom(Tail(uid_map), size, selectable)

BatchesOf(records, size, selectable) ==
    BatchesFrom(UidMap(records, records, {}), size, selectable)

\* fetch_emails.py 300-314: one batch; the server returns the messages of
\* the UIDs asked for that it has
FetchBatch(records, batch, answered) ==
    StoreAllBodies(records, batch.mailbox,
                   {uid \in Range(batch.uids) : <<batch.mailbox, uid>> \in answered})

\* fetch_emails.py 298-314: every batch in turn
RECURSIVE FetchBatches(_, _, _)
FetchBatches(records, todo, answered) ==
    IF todo = <<>> THEN records
    ELSE FetchBatches(FetchBatch(records, Head(todo), answered), Tail(todo), answered)

\* handler.py 63-65: what the caller alone returns for the record set
FetchEmailBody(records, size, selectable, answered) ==
    FetchBatches(records, BatchesOf(records, size, selectable), answered)

\* handler.py 82: email_records.update(result)
MergeResult_replaces(records, result) == result

MergeResult(records, result) == UpdateEntries(records, result)

EqWorkers == 1..MaxWorkers

EquivInit ==
    /\ eq_records \in DiscoveredRecords
    /\ eq_size \in 1..MaxFetchSize
    /\ eq_workers \in 1..MaxWorkers
    /\ eq_selectable \in SUBSET Mailboxes
    /\ eq_answered \in SUBSET EntryKeys(eq_records)
    /\ eq_pc = "split"
    /\ eq_shares = [w \in EqWorkers |-> <<>>]
    /\ eq_todo = [w \in EqWorkers |-> <<>>]
    /\ eq_wpc = [w \in EqWorkers |-> "idle"]
    /\ eq_joined = 0
    /\ eq_out = eq_records

EquivIdle ==
    /\ eq_records = <<>>
    /\ eq_size = 1
    /\ eq_workers = 1
    /\ eq_selectable = {}
    /\ eq_answered = {}
    /\ eq_pc = "idle"
    /\ eq_shares = [w \in EqWorkers |-> <<>>]
    /\ eq_todo = [w \in EqWorkers |-> <<>>]
    /\ eq_wpc = [w \in EqWorkers |-> "idle"]
    /\ eq_joined = 0
    /\ eq_out = <<>>

\* handler.py 72-78: the shares are split and each is submitted
EquivSplit ==
    /\ eq_pc = "split"
    /\ LET shares == split_evenly(eq_records, eq_workers)
       IN  /\ eq_shares' = [w \in EqWorkers |->
                               IF w <= eq_workers THEN shares[w] ELSE <<>>]
           /\ eq_todo' = [w \in EqWorkers |->
                             IF w <= eq_workers
                             THEN BatchesOf(shares[w], eq_size, eq_selectable)
                             ELSE <<>>]
    /\ eq_wpc' = [w \in EqWorkers |-> IF w <= eq_workers THEN "run" ELSE "idle"]
    /\ eq_pc' = "join"
    /\ UNCHANGED <<eq_records, eq_size, eq_workers, eq_selectable, eq_answered,
                   eq_joined, eq_out>>
    /\ UNCHANGED othersEquiv

\* fetch_emails.py 298-314: a worker fetches its next batch
EquivBatch(w) ==
    /\ eq_wpc[w] = "run"
    /\ eq_todo[w] # <<>>
    /\ eq_shares' = [eq_shares EXCEPT ![w] = FetchBatch(@, Head(eq_todo[w]), eq_answered)]
    /\ eq_todo' = [eq_todo EXCEPT ![w] = Tail(@)]
    /\ UNCHANGED <<eq_records, eq_size, eq_workers, eq_selectable, eq_answered, eq_pc,
                   eq_wpc, eq_joined, eq_out>>
    /\ UNCHANGED othersEquiv

\* fetch_emails.py 292-295 and 330: a worker's fetch_email_body returns
EquivReturn(w) ==
    /\ eq_wpc[w] = "run"
    /\ eq_todo[w] = <<>>
    /\ eq_wpc' = [eq_wpc EXCEPT ![w] = "returned"]
    /\ UNCHANGED <<eq_records, eq_size, eq_workers, eq_selectable, eq_answered, eq_pc,
                   eq_shares, eq_todo, eq_joined, eq_out>>
    /\ UNCHANGED othersEquiv

EquivWorker == \E w \in EqWorkers : EquivBatch(w) \/ EquivReturn(w)

\* handler.py 79-82: the result of the next future is merged
EquivJoin ==
    /\ eq_pc = "join"
    /\ eq_joined < eq_workers
    /\ eq_wpc[eq_joined + 1] = "returned"
    /\ eq_out' = MergeResult(eq_out, eq_shares[eq_joined + 1])
    /\ eq_joined' = eq_joined + 1
    /\ eq_pc' = IF eq_joined + 1 = eq_workers THEN "done" ELSE "join"
    /\ UNCHANGED <<eq_records, eq_size, eq_workers, eq_selectable, eq_answered,
                   eq_shares, eq_todo, eq_wpc>>
    /\ UNCHANGED othersEquiv

(***************************************************************************)
(* The specifications.                                                     *)
(***************************************************************************)
InitFetch == FetchInit /\ SelectIdle /\ SplitIdle /\ HandlerIdle /\ ProgressIdle /\ RankIdle /\ ExtractIdle /\ ResolveIdle /\ MetaIdle /\ BodyIdle /\ PipeIdle /\ RunIdle /\ SinceIdle /\ Utf7Idle /\ CipherIdle /\ BatchIdle /\ SessionIdle /\ EquivIdle

NextFetch == FetchSelect \/ FetchAttempt \/ FetchReturn

SpecFetch == InitFetch /\ [][NextFetch]_vars

InitSelect == SelectInit /\ FetchIdle /\ SplitIdle /\ HandlerIdle /\ ProgressIdle /\ RankIdle /\ ExtractIdle /\ ResolveIdle /\ MetaIdle /\ BodyIdle /\ PipeIdle /\ RunIdle /\ SinceIdle /\ Utf7Idle /\ CipherIdle /\ BatchIdle /\ SessionIdle /\ EquivIdle

NextSelect == SelectCall

SpecSelect == InitSelect /\ [][NextSelect]_vars

InitSplit == SplitInit /\ FetchIdle /\ SelectIdle /\ HandlerIdle /\ ProgressIdle /\ RankIdle /\ ExtractIdle /\ ResolveIdle /\ MetaIdle /\ BodyIdle /\ PipeIdle /\ RunIdle /\ SinceIdle /\ Utf7Idle /\ CipherIdle /\ BatchIdle /\ SessionIdle /\ EquivIdle

NextSplit == SplitCall

SpecSplit == InitSplit /\ [][NextSplit]_vars

InitHandler == HandlerInit /\ FetchIdle /\ SelectIdle /\ SplitIdle /\ ProgressIdle /\ RankIdle /\ ExtractIdle /\ ResolveIdle /\ MetaIdle /\ BodyIdle /\ PipeIdle /\ RunIdle /\ SinceIdle /\ Utf7Idle /\ CipherIdle /\ BatchIdle /\ SessionIdle /\ EquivIdle

NextHandler ==
    \/ CmStep
    \/ BodyStep
    \/ MainExtract
    \/ MainAfterSession
    \/ MainJoin
    \/ MainShutdown
    \/ MainWrite

SpecHandler == InitHandler /\ [][NextHandler]_vars

\* a run during which the process may be sent SIGINT
NextHandlerSignal ==
    \/ CmStep
    \/ BodyStep
    \/ MainExtract
    \/ MainAfterSession
    \/ MainJoin
    \/ MainShutdown
    \/ MainInterrupt
    \/ MainWrite

SpecHandlerSignal == InitHandler /\ [][NextHandlerSignal]_vars

InitProgress == ProgressInit /\ FetchIdle /\ SelectIdle /\ SplitIdle /\ HandlerIdle /\ RankIdle /\ ExtractIdle /\ ResolveIdle /\ MetaIdle /\ BodyIdle /\ PipeIdle /\ RunIdle /\ SinceIdle /\ Utf7Idle /\ CipherIdle /\ BatchIdle /\ SessionIdle /\ EquivIdle

NextProgress == ProgressUpdate \/ ProgressLoop

SpecProgress == InitProgress /\ [][NextProgress]_vars

InitRank ==
    RankInit /\ FetchIdle /\ SelectIdle /\ SplitIdle /\ HandlerIdle /\ ProgressIdle /\ ExtractIdle /\ ResolveIdle /\ MetaIdle /\ BodyIdle /\ PipeIdle /\ RunIdle /\ SinceIdle /\ Utf7Idle /\ CipherIdle /\ BatchIdle /\ SessionIdle /\ EquivIdle

NextRank == RankCall

SpecRank == InitRank /\ [][NextRank]_vars

InitExtract ==
    ExtractInit /\ FetchIdle /\ SelectIdle /\ SplitIdle /\ HandlerIdle /\ ProgressIdle
        /\ RankIdle /\ ResolveIdle /\ MetaIdle /\ BodyIdle /\ PipeIdle /\ RunIdle /\ SinceIdle /\ Utf7Idle /\ CipherIdle /\ BatchIdle /\ SessionIdle /\ EquivIdle

NextExtract == ExtractStart \/ ExtractMailbox \/ ExtractReturn

SpecExtract == InitExtract /\ [][NextExtract]_vars

InitResolve ==
    ResolveInit /\ FetchIdle /\ SelectIdle /\ SplitIdle /\ HandlerIdle /\ ProgressIdle
        /\ RankIdle /\ ExtractIdle /\ MetaIdle /\ BodyIdle /\ PipeIdle /\ RunIdle /\ SinceIdle /\ Utf7Idle /\ CipherIdle /\ BatchIdle /\ SessionIdle /\ EquivIdle

NextResolve == ResolveCall

SpecResolve == InitResolve /\ [][NextResolve]_vars

InitMeta ==
    MetaInit /\ FetchIdle /\ SelectIdle /\ SplitIdle /\ HandlerIdle /\ ProgressIdle
        /\ RankIdle /\ ExtractIdle /\ ResolveIdle /\ BodyIdle /\ PipeIdle /\ RunIdle /\ SinceIdle /\ Utf7Idle /\ CipherIdle /\ BatchIdle /\ SessionIdle /\ EquivIdle

NextMeta == MetaCall \/ MetaSelect \/ MetaBatch \/ MetaReturn

SpecMeta == InitMeta /\ [][NextMeta]_vars

InitBody ==
    BodyInit /\ FetchIdle /\ SelectIdle /\ SplitIdle /\ HandlerIdle /\ ProgressIdle
        /\ RankIdle /\ ExtractIdle /\ ResolveIdle /\ MetaIdle /\ PipeIdle /\ RunIdle /\ SinceIdle /\ Utf7Idle /\ CipherIdle /\ BatchIdle /\ SessionIdle /\ EquivIdle

NextBody == BodyCall \/ BodySelect \/ BodyBatch \/ BodyLoopEnd \/ BodyDone

SpecBody == InitBody /\ [][NextBody]_vars

InitPipe ==
    PipeInit /\ FetchIdle /\ SelectIdle /\ SplitIdle /\ HandlerIdle /\ ProgressIdle
        /\ RankIdle /\ ExtractIdle /\ ResolveIdle /\ MetaIdle /\ BodyIdle /\ RunIdle /\ SinceIdle /\ Utf7Idle /\ CipherIdle /\ BatchIdle /\ SessionIdle /\ EquivIdle

NextPipe ==
    \/ PipeDiscover
    \/ PipeMetadataBatch
    \/ PipeMetadataEnd
    \/ PipeRank
    \/ PipeSplit
    \/ PipeBodyBatch
    \/ PipeBodyEnd
    \/ PipeMerge

SpecPipe == InitPipe /\ [][NextPipe]_vars

InitRun ==
    RunInit /\ FetchIdle /\ SelectIdle /\ SplitIdle /\ HandlerIdle /\ ProgressIdle
        /\ RankIdle /\ ExtractIdle /\ ResolveIdle /\ MetaIdle /\ BodyIdle /\ PipeIdle /\ SinceIdle /\ Utf7Idle /\ CipherIdle /\ BatchIdle /\ SessionIdle /\ EquivIdle

NextRun ==
    \/ RunCall
    \/ HandlerWork
    \/ HandlerReturn
    \/ HandlerRaise
    \/ RunExcept
    \/ RunFinally
    \/ DelaySleep
    \/ RunEnd

SpecRun == InitRun /\ [][NextRun]_vars

InitSince ==
    SinceInit /\ FetchIdle /\ SelectIdle /\ SplitIdle /\ HandlerIdle /\ ProgressIdle
        /\ RankIdle /\ ExtractIdle /\ ResolveIdle /\ MetaIdle /\ BodyIdle /\ PipeIdle
        /\ RunIdle /\ Utf7Idle /\ CipherIdle /\ BatchIdle /\ SessionIdle /\ EquivIdle

NextSince == SinceConfig \/ SinceDate \/ SinceCriteria

SpecSince == InitSince /\ [][NextSince]_vars

InitUtf7 ==
    Utf7Init /\ FetchIdle /\ SelectIdle /\ SplitIdle /\ HandlerIdle /\ ProgressIdle
        /\ RankIdle /\ ExtractIdle /\ ResolveIdle /\ MetaIdle /\ BodyIdle /\ PipeIdle
        /\ RunIdle /\ SinceIdle /\ CipherIdle /\ BatchIdle /\ SessionIdle /\ EquivIdle

NextUtf7 == Utf7Encode \/ Utf7Decode

SpecUtf7 == InitUtf7 /\ [][NextUtf7]_vars

InitCipher ==
    CipherInit /\ FetchIdle /\ SelectIdle /\ SplitIdle /\ HandlerIdle /\ ProgressIdle
        /\ RankIdle /\ ExtractIdle /\ ResolveIdle /\ MetaIdle /\ BodyIdle /\ PipeIdle
        /\ RunIdle /\ SinceIdle /\ Utf7Idle /\ BatchIdle /\ SessionIdle /\ EquivIdle

NextCipher ==
    \/ CipherGetInstance
    \/ CipherKeyFileReplaced
    \/ CipherEncrypt
    \/ CipherDecrypt

SpecCipher == InitCipher /\ [][NextCipher]_vars

InitBatch ==
    BatchInit /\ FetchIdle /\ SelectIdle /\ SplitIdle /\ HandlerIdle /\ ProgressIdle
        /\ RankIdle /\ ExtractIdle /\ ResolveIdle /\ MetaIdle /\ BodyIdle /\ PipeIdle
        /\ RunIdle /\ SinceIdle /\ Utf7Idle /\ CipherIdle /\ SessionIdle /\ EquivIdle

NextBatch == BatchCall \/ BatchSelect \/ BatchYield \/ BatchEnd

SpecBatch == InitBatch /\ [][NextBatch]_vars

InitSession ==
    SessionInit /\ FetchIdle /\ SelectIdle /\ SplitIdle /\ HandlerIdle /\ ProgressIdle
        /\ RankIdle /\ ExtractIdle /\ ResolveIdle /\ MetaIdle /\ BodyIdle /\ PipeIdle
        /\ RunIdle /\ SinceIdle /\ Utf7Idle /\ CipherIdle /\ BatchIdle /\ EquivIdle

NextSession ==
    \/ SessionLogin
    \/ SessionResolve
    \/ SessionDiscover
    \/ SessionDiscoverEnd
    \/ SessionIterSelect
    \/ SessionBatch
    \/ SessionMetadataEnd
    \/ SessionRank
    \/ SessionBodyEnd
    \/ SessionLogout

SpecSession == InitSession /\ [][NextSession]_vars

InitEquiv ==
    EquivInit /\ FetchIdle /\ SelectIdle /\ SplitIdle /\ HandlerIdle /\ ProgressIdle
        /\ RankIdle /\ ExtractIdle /\ ResolveIdle /\ MetaIdle /\ BodyIdle /\ PipeIdle
        /\ RunIdle /\ SinceIdle /\ Utf7Idle /\ CipherIdle /\ BatchIdle /\ SessionIdle

NextEquiv ==
    \/ EquivSplit
    \/ EquivWorker
    \/ EquivJoin

SpecEquiv == InitEquiv /\ [][NextEquiv]_vars

(***************************************************************************)
(* Claims about fetch_raw_by_mailbox_and_uid_list, under SpecFetch.        *)
(***************************************************************************)
FetchFinished == fetch_pc \in {"returned", "raised"}

\* C1: a batch issues at most retry+1 fetch commands, and each command
\* requests exactly the UIDs of the batch that no earlier attempt satisfied.
C1_CommandsRequestOutstanding ==
    /\ [](cmds <= retry + 1)
    /\ [][cmds' # cmds =>
            /\ cmds' = cmds + 1
            /\ uid_str' = uid_list \ fetched_all]_vars

\* a second command that asks for less than the batch
C1_Witness == cmds >= 2 /\ uid_str # {} /\ uid_str # uid_list

\* C2: outstanding UIDs after the last allowed attempt, which answered OK:
\* no raise, the results of every UID satisfied in any attempt are returned
\* and the warning names exactly the outstanding UIDs.
C2_PartialResultWithWarning ==
    (cmds = retry + 1 /\ status = "OK" /\ uid_list \ fetched_all # {}) =>
        /\ fetch_pc # "raised"
        /\ fetch_pc = "returned" =>
              /\ warned = {uid_list \ fetched_all}
              /\ fetched_all \subseteq DOMAIN results

C2_Witness ==
    /\ fetch_pc = "returned"
    /\ cmds = retry + 1 /\ cmds >= 2
    /\ status = "OK"
    /\ warned # NoWarning
    /\ fetched_all \cap uid_list # {}

\* C3 as stated: the batch raises if and only if every attempt returned a
\* non-success status (runs in which the command itself raised left aside).
C3_RaisesIffEveryAttemptFailed ==
    (FetchFinished /\ cmds >= 1 /\ status # "ERR") =>
        ((fetch_pc = "raised") <=> ~any_ok)

\* C3 amended: the batch raises if and only if the last allowed attempt
\* (number retry+1) was issued and returned a non-success status, or a fetch
\* command itself raised; otherwise everything gathered is returned.
C3_RaisesIffLastAttemptFailed ==
    FetchFinished =>
        /\ (fetch_pc = "raised") <=>
              (status = "ERR" \/ (status = "NO" /\ cmds = retry + 1))
        /\ fetch_pc = "returned" => DOMAIN results = fetched_all

\* raised although an earlier attempt of the batch had succeeded
C3_Witness == fetch_pc = "raised" /\ status = "NO" /\ any_ok /\ fetched_all # {}

\* C4: once the attempts together satisfied every requested UID, no further
\* fetch command is issued and the returned map holds every requested UID.
C4_CompleteResultStopsFetching ==
    /\ []((fetch_pc = "returned" /\ uid_list \subseteq fetched_all /\ cmds >= 1)
            => uid_list \subseteq DOMAIN results)
    /\ []((uid_list \subseteq fetched_all /\ cmds >= 1) => fetch_pc # "raised")
    /\ [][(uid_list \subseteq fetched_all /\ cmds >= 1) => cmds' = cmds]_vars

\* two attempts, each satisfying a part, with a retry left unused
C4_Witness ==
    /\ fetch_pc = "returned"
    /\ cmds = 2 /\ retry >= 2
    /\ uid_str # uid_list
    /\ uid_list \subseteq DOMAIN results

\* C5 as stated: every key of the returned map is a requested UID.
C5_ResultKeysAreRequested ==
    fetch_pc = "returned" => DOMAIN results \subseteq uid_list

\* C6: exactly one delay between two consecutive attempts, none after the
\* final attempt nor after the attempt that satisfied the last UID.
C6_OneDelayBetweenAttempts ==
    IF cmds = 0 THEN sleeps = 0
    ELSE IF fetch_pc = "loop" /\ LoopContinues(remaining_uids, attempt, retry)
         THEN sleeps = cmds
         ELSE sleeps = cmds - 1

\* a delay after a partial attempt and one after a failed attempt
C6_Witness ==
    /\ fetch_pc = "loop" /\ LoopContinues(remaining_uids, attempt, retry)
    /\ status = "NO" /\ sleeps = 2
    /\ fetched_all \cap uid_list # {}


(***************************************************************************)
(* Claims about connect_and_login_imap, under SpecHandler (the caller's    *)
(* session and the workers' sessions).                                     *)
(***************************************************************************)
\* C7: for every session connect_and_login_imap established, logout is
\* called exactly once on every exit path (normal end of the block, login
\* failure, exception inside the block), never before the block is left,
\* and an exception of logout does not leave the with statement.
C7_LogoutExactlyOnce ==
    /\ \A t \in Threads :
          /\ (cm_pc[t] = "exited" /\ imap[t] # None) =>
                /\ sess[imap[t]].logouts = 1
                /\ sess[imap[t]].logout_by = {t}
          /\ (cm_pc[t] # "exited" /\ imap[t] # None) => sess[imap[t]].logouts = 0
          /\ exc[t] \in {"none", "connect", "login", "body"}
    /\ \A s \in DOMAIN sess : \E t \in Threads : imap[t] = s /\ sess[s].owner = t

\* the block raised, logout was called once and raised as well
C7_Witness ==
    \E t \in Threads :
        /\ cm_pc[t] = "exited"
        /\ exc[t] = "body"
        /\ imap[t] # None
        /\ sess[imap[t]].logouts = 1
        /\ sess[imap[t]].logout_raised

(***************************************************************************)
(* Claims about select_mailbox, under SpecSelect.                          *)
(***************************************************************************)
\* C8: select_mailbox never raises; it returns false for a non-OK status,
\* for a select that raises and for a zero message count, and true only for
\* an OK status with a non-zero count.
C8_SelectNeverRaises ==
    sel_calls >= 1 =>
        /\ ~sel_out.raised
        /\ sel_out.ret <=> (sel_resp.kind = "OK" /\ sel_resp.exists # 0)

\* imap.select raised and select_mailbox returned false
C8_Witness ==
    /\ sel_calls >= 1
    /\ sel_resp.kind = "IMAP4.error"
    /\ sel_out = Return(FALSE)

(***************************************************************************)
(* Claims about split_evenly, under SpecSplit.                             *)
(***************************************************************************)

\* C9: W shares, sizes differing by at most 1, N mod W shares with one
\* extra item, the largest share has ceil(N/W) items, the shares are
\* pairwise disjoint and their union is the original key set.
C9_SplitIsEvenPartition ==
    split_pc = "done" =>
        LET N == Len(split_data)
            W == split_n
            shares == split_result
            sizes == [i \in DOMAIN shares |-> Len(shares[i])]
            keys(i) == Range(shares[i])
        IN  /\ Len(shares) = W
            /\ \A i, j \in DOMAIN shares : sizes[i] - sizes[j] <= 1
            /\ Cardinality({i \in DOMAIN shares : sizes[i] = (N \div W) + 1}) = N % W
            /\ \A i \in DOMAIN shares : sizes[i] <= (N + W - 1) \div W
            /\ \E i \in DOMAIN shares : sizes[i] = (N + W - 1) \div W
            /\ \A i \in DOMAIN shares : Cardinality(keys(i)) = sizes[i]
            /\ \A i, j \in DOMAIN shares : i # j => keys(i) \cap keys(j) = {}
            /\ UNION {keys(i) : i \in DOMAIN shares} = Range(split_data)

\* a split with a remainder: some shares hold one item more than others
C9_Witness ==
    /\ split_pc = "done"
    /\ Len(split_data) % split_n # 0
    /\ Len(split_data) > split_n
    /\ \E i, j \in DOMAIN split_result :
          Len(split_result[i]) = Len(split_result[j]) + 1

(***************************************************************************)
(* Claims about the multi-worker body fetch, under SpecHandler.            *)
(***************************************************************************)
\* C10: in multi-worker mode every worker opens its own session and issues
\* its commands on that session only: no session receives commands from a
\* thread other than the one that opened it, two workers never hold the
\* same session, and each worker logs out the session it opened.
C10_SessionsNotShared ==
    is_multi_thread =>
        /\ \A s \in DOMAIN sess :
              /\ sess[s].issuers \subseteq {sess[s].owner}
              /\ sess[s].logout_by \subseteq {sess[s].owner}
        /\ \A w \in Workers :
              /\ cm_pc[w] = "fetch_body" =>
                    /\ imap[w] # None
                    /\ sess[imap[w]].owner = w
                    /\ sess[imap[w]].state = "authenticated"
              /\ ncmds[w] > 0 => w \in sess[imap[w]].issuers
              /\ (cm_pc[w] = "exited" /\ imap[w] # None) =>
                    sess[imap[w]].logout_by = {w}
        /\ \A v, w \in Workers :
              (v # w /\ imap[v] # None /\ imap[w] # None) => imap[v] # imap[w]

\* two workers fetch at the same time, each has issued commands
C10_Witness ==
    /\ is_multi_thread
    /\ \E v, w \in Workers :
          /\ v # w
          /\ cm_pc[v] = "fetch_body" /\ ncmds[v] >= 1
          /\ cm_pc[w] = "fetch_body" /\ ncmds[w] >= 1

(***************************************************************************)
(* Claims about the merge of the workers' results, under SpecHandler.      *)
(***************************************************************************)
\* C11: with several workers no key is in the results of two workers, and
\* once every result is merged the records have exactly the keys of the
\* ranked set that was split.
C11_MergeRestoresRankedKeys ==
    is_multi_thread =>
        /\ \A v \in Workers, w \in Workers :
              v # w => Range(body_records[v]) \cap Range(body_records[w]) = {}
        /\ h_pc \in {"write", "done"} =>
              /\ Range(email_records) = Range(ranked)
              /\ Len(email_records) = Len(ranked)

\* two workers, each with a share, both of which fetched and were merged
C11_Witness ==
    /\ is_multi_thread /\ h_pc = "done"
    /\ split_workers = 2 /\ joined = 2
    /\ Len(ranked) = 3
    /\ \A w \in Workers : ncmds[w] >= 1 /\ body_records[w] # <<>>

(***************************************************************************)
(* Claims about the progress bar, under SpecProgress.                      *)
(***************************************************************************)
\* C12: every update of the shared progress counter is made while holding
\* the one lock: no two workers are inside an update at once, and no
\* update is lost.
C12_UpdatesUnderLock ==
    /\ \A w \in PbWorkers :
         pb_pc[w] \in {"read", "write", "release"} => lock = w
    /\ \A v \in PbWorkers, w \in PbWorkers :
         (v # w /\ pb_pc[v] \in {"read", "write"}) => pb_pc[w] \notin {"read", "write"}
    /\ (\A w \in PbWorkers : pb_pc[w] \in {"loop", "acquire", "done"}) =>
         pbar_n = pb_calls

\* two workers have both updated the bar, one waited for the other
C12_Witness ==
    /\ \A w \in PbWorkers : pb_pc[w] = "done"
    /\ pbar_n >= 3

(***************************************************************************)
(* Claims about filter_and_sort_records, under SpecRank.                   *)
(***************************************************************************)
RankKeys(items) == {items[i].key : i \in DOMAIN items}

\* the effective limit of the claims: an absent limit counts as the maximum
EffectiveLimit ==
    Min(Len(rank_records),
        Min(IF rank_limit.given THEN rank_limit.n ELSE rank_max, rank_max))

\* C13: with order desc a call that returns hands back exactly
\* min(available, L, systemMax) records (for a limit L that is absent,
\* counting as systemMax, or not negative), and never more than systemMax
\* records whatever limit is requested.
C13_LengthIsEffectiveLimit ==
    (rank_pc = "done" /\ rank_order = "desc" /\ ~rank_out.raised) =>
        /\ (rank_limit.given => rank_limit.n >= 0) =>
              Len(rank_out.items) = EffectiveLimit
        /\ Len(rank_out.items) <= rank_max

\* C14: with order desc, for every record set, mixed ones included, the
\* call returns without raising a sequence non-increasing by internaldate
\* in which the undated records come after all dated ones.
C14_DescendingSortsUndatedLast ==
    (rank_pc = "done" /\ rank_order = "desc") =>
        /\ ~rank_out.raised
        /\ \A i \in DOMAIN rank_out.items, j \in DOMAIN rank_out.items :
             i < j => rank_out.items[i].internaldate >= rank_out.items[j].internaldate

\* what order asc returns on the same records with the same limit
AscendingOut ==
    FilterAndSortRecords(rank_records, "asc", rank_limit, rank_max,
                         [i \in DOMAIN rank_records |-> i])

\* C15 as stated: for every limit (absent or not negative) the output of
\* order rand has the same key set as the output of order asc on the same
\* input (where asc returns).
C15_RandomSameKeysAsAscending ==
    (/\ rank_pc = "done" /\ rank_order = "rand"
     /\ ~AscendingOut.raised
     /\ rank_limit.given => rank_limit.n >= 0) =>
        RankKeys(rank_out.items) = RankKeys(AscendingOut.items)

\* C15, amended: order rand never raises and returns distinct records of
\* the input, as many as order asc returns when that call returns; the key
\* sets are equal when the limit keeps every available record.
C15_RandomIsSampleOfInput ==
    (rank_pc = "done" /\ rank_order = "rand") =>
        /\ ~rank_out.raised
        /\ RankKeys(rank_out.items) \subseteq RankKeys(rank_records)
        /\ Cardinality(RankKeys(rank_out.items)) = Len(rank_out.items)
        /\ ~AscendingOut.raised =>
              /\ Len(rank_out.items) = Len(AscendingOut.items)
              /\ Len(rank_out.items) = Len(rank_records) =>
                    RankKeys(rank_out.items) = RankKeys(AscendingOut.items)

\* a limit below the number of records: rand kept a record that asc drops
C15_Witness ==
    /\ rank_pc = "done" /\ rank_order = "rand"
    /\ Len(rank_records) = 3
    /\ ~AscendingOut.raised
    /\ rank_limit = [given |-> TRUE, n |-> 2]
    /\ Len(rank_out.items) = 2
    /\ RankKeys(rank_out.items) # RankKeys(AscendingOut.items)

(***************************************************************************)
(* Claims about extract_uids, under SpecExtract.                           *)
(***************************************************************************)
\* C16: the mapping has exactly one record per distinct (mailbox, UID) pair
\* the searches reported; a UID reported twice or a mailbox listed twice
\* neither makes a second entry nor raises, and the mapping depends on the
\* set of pairs only, so reporting the same pairs again leaves it as it is.
C16_OneRecordPerReportedPair ==
    /\ EntryKeys(ext_records) = ext_reported
    /\ Len(ext_records) = Cardinality(ext_reported)
    /\ Range(ext_records) = {NewEntry(p[1], p[2]) : p \in ext_reported}
    /\ ext_pc = "raised" => ext_log[Len(ext_log)].search \notin {"none", "OK"}

\* a mailbox handled twice with results, one search naming a UID twice
C16_Witness ==
    /\ ext_pc = "returned"
    /\ Len(ext_log) = 2
    /\ ext_log[1].mailbox = ext_log[2].mailbox
    /\ ext_log[1].found # {} /\ ext_log[2].found # {}
    /\ ext_log[1].found \cap ext_log[2].found # {}
    /\ ext_log[1].repeated

\* a pass of the loop that selection or an empty search result cut short
Skipped(entry) == ~entry.selected \/ (entry.search = "OK" /\ entry.found = {})

\* C17: a mailbox whose selection fails (non-OK or zero messages) or whose
\* search names no UID adds no record and raises nothing, and every later
\* mailbox is still selected, and searched when its selection succeeds.
C17_SkippedMailboxIsHarmless ==
    /\ \A i \in DOMAIN ext_log :
         Skipped(ext_log[i]) =>
            /\ ~ext_log[i].changed
            /\ i = Len(ext_log) => ext_pc # "raised"
            /\ ext_log[i].mailbox = ext_mailboxes[i]
    /\ ext_pc = "loop" => ext_i = Len(ext_log) + 1
    /\ ext_pc = "returned" =>
         /\ Len(ext_log) = Len(ext_mailboxes)
         /\ \A i \in DOMAIN ext_log :
              /\ ext_log[i].mailbox = ext_mailboxes[i]
              /\ ext_log[i].selected => ext_log[i].search = "OK"

\* the first mailbox was skipped, the second was searched and gave records
C17_Witness ==
    /\ ext_pc = "returned"
    /\ Len(ext_log) = 2
    /\ Skipped(ext_log[1])
    /\ ext_log[2].selected /\ ext_log[2].found # {}
    /\ ext_records # <<>>

(***************************************************************************)
(* Claims about collect_target_mailboxes, under SpecResolve.               *)
(***************************************************************************)
\* the wire forms of the names of a list, in its order
WireForms(names) == [i \in DOMAIN names |-> EncodeToUtf7(names[i])]

\* C18 as stated: with explicit targets the result is exactly the targets
\* in wire form, in their order, whatever the ignore list and the server's
\* list are.
C18_TargetsReturnedVerbatim ==
    (res_pc = "done" /\ res_targets # <<>>) =>
        /\ ~res_out.raised
        /\ res_out.names = WireForms(res_targets)

\* C18, amended: with explicit targets the result is the wire form of the
\* targets that are not in the ignore list, in their order; the server's
\* list is not asked for and does not matter.
C18_TargetsMinusIgnored ==
    (res_pc = "done" /\ res_targets # <<>>) =>
        /\ ~res_out.raised
        /\ ~res_listed
        /\ res_out.names =
              WireForms(SelectSeq(res_targets, LAMBDA nm : nm \notin res_ignored))

\* two targets, the first of which is ignored, and a server list that names
\* other mailboxes
C18_Witness ==
    /\ res_pc = "done"
    /\ Len(res_targets) = 2
    /\ res_targets[1] \in res_ignored /\ res_targets[2] \notin res_ignored
    /\ res_list.status = "OK" /\ res_list.lines # <<>>
    /\ res_out.names = <<EncodeToUtf7(res_targets[2])>>
    /\ res_out.names # <<res_targets[2]>>

\* the mailboxes that the lines of the server's list name
ListedNames == [i \in DOMAIN res_list.lines |-> res_list.lines[i].name]

Selectable(nm) ==
    \E i \in DOMAIN res_list.lines :
        res_list.lines[i].name = nm /\ ~res_list.lines[i].noselect

\* C19: without explicit targets the result is the wire form of exactly
\* the listed mailboxes that are selectable and not in the ignore list.
C19_ListedSelectableNotIgnored ==
    (res_pc = "done" /\ res_targets = <<>> /\ res_list.status = "OK") =>
        /\ ~res_out.raised
        /\ \A i \in DOMAIN res_out.names :
             \E nm \in MailboxNames :
                /\ res_out.names[i] = EncodeToUtf7(nm)
                /\ Selectable(nm)
                /\ nm \notin res_ignored
        /\ \A i \in DOMAIN ListedNames :
             (~res_list.lines[i].noselect /\ ListedNames[i] \notin res_ignored) =>
                \E k \in DOMAIN res_out.names :
                    res_out.names[k] = EncodeToUtf7(ListedNames[i])

(***************************************************************************)
(* Claims about fetch_email_metadata, under SpecMeta.                      *)
(***************************************************************************)
\* C20: fetch_email_metadata never adds a record: whatever items the server
\* returns, the key set of the records stays what it was at the call.
C20_MetadataKeepsKeySet ==
    meta_pc \in {"loop", "returned", "raised"} =>
        EntryKeys(meta_records) = meta_before

(***************************************************************************)
(* Claims about one call of fetch_email_body, under SpecBody.              *)
(***************************************************************************)
\* C21: fetch_email_body never adds or removes a record; an item whose
\* (mailbox, UID) is not a key is skipped with a warning, and a record
\* that no handled item names keeps its subject and body.
C21_BodyFetchKeepsRecords ==
    fb_pc \in {"loop", "after_loop", "returned", "raised"} =>
        /\ EntryKeys(fb_records) = EntryKeys(fb_before)
        /\ Len(fb_records) = Len(fb_before)
        /\ fb_warned = fb_seen \ EntryKeys(fb_before)
        /\ \A i \in DOMAIN fb_records :
             fb_records[i].key \notin fb_seen => fb_records[i] = fb_before[i]

\* an item without a record was handled next to one with a record
C21_Witness ==
    /\ fb_pc = "returned"
    /\ fb_warned # {}
    /\ \E i \in DOMAIN fb_records : fb_records[i].rec.subject # NoText
    /\ \E i \in DOMAIN fb_records : fb_records[i].rec.subject = NoText

\* C22: after a KeyboardInterrupt in a batch no further batch is fetched,
\* the function returns without raising, and the records handled before
\* the interrupt have their subject and body.
C22_CancelReturnsPartialResult ==
    fb_cancel.happened =>
        /\ fb_pc \in {"after_loop", "returned"}
        /\ fb_fetches = fb_cancel.fetches
        /\ \A i \in DOMAIN fb_records :
             fb_records[i].key \in fb_cancel.stored =>
                /\ fb_records[i].rec.subject # NoText
                /\ fb_records[i].rec.body # NoText

\* the interrupt came in the first of several batches, after one record
\* had been filled in
C22_Witness ==
    /\ fb_pc = "returned"
    /\ fb_cancel.happened
    /\ fb_cancel.stored # {}
    /\ fb_fetches = 1
    /\ Len(fb_records) >= 2
    /\ \E i \in DOMAIN fb_records : fb_records[i].rec.subject = NoText

(***************************************************************************)
(* Claims about the end of a run of email_fetch_handler, under SpecHandler *)
(***************************************************************************)
\* C23: in multi-worker mode a cancellation signal stops only the worker
\* that received it; once the run is over and no worker's call has raised,
\* the result of every worker has been merged into the record set.
C23_CancelledRunMergesAllWorkers ==
    (is_multi_thread /\ h_signal /\ h_pc \in {"done", "raised"}
        /\ \A w \in Workers : exc[w] = "none")
    => joined = split_workers

\* C25: when the writer reports failure, email_fetch_handler completes and
\* does not raise.
C25_WriterFailureDoesNotRaise ==
    h_write = "failed" => h_pc = "done"

\* C30: once a batch of a fetch_email_body has failed for good, that fetch
\* issues no later command, the failure is not turned into a result that
\* the handler merges, and the handler writes no output file.
C30_TotalFailurePropagates ==
    /\ [](\A t \in Threads :
            (exc[t] = "body" /\ ncmds[t] >= 1) =>
                /\ cm_pc[t] \in {"finally", "exited"}
                /\ h_pc \notin {"write", "done"}
                /\ h_write = "none"
                /\ joined < t \/ t = 0)
    /\ [][\A t \in Threads :
            (exc[t] = "body" /\ ncmds[t] >= 1) => ncmds'[t] = ncmds[t]]_vars

\* the second of two workers failed in its second command after the first
\* worker's result was merged, and the handler raised
C30_Witness ==
    /\ is_multi_thread
    /\ split_workers = 2
    /\ exc[2] = "body"
    /\ ncmds[2] = 2
    /\ exc[1] = "none"
    /\ joined = 1
    /\ h_pc = "raised"

(***************************************************************************)
(* Claims about the record mapping through a run, under SpecPipe.          *)
(***************************************************************************)
KeyIsIdentity(records) ==
    \A i \in DOMAIN records :
        /\ records[i].rec.mailbox = records[i].key[1]
        /\ records[i].rec.uid = records[i].key[2]

\* C24: at every stage of a run every entry of the record mapping, and of
\* every worker's share of it, has record.mailbox = key.mailbox and
\* record.uid = key.uid.
C24_RecordKeepsMailboxAndUid ==
    /\ KeyIsIdentity(pl_records)
    /\ \A w \in DOMAIN pl_shares : KeyIsIdentity(pl_shares[w])

\* two workers' shares were merged, with a date from the metadata fetch
\* and a body from the body fetch
C24_Witness ==
    /\ pl_pc = "done"
    /\ pl_multi
    /\ Len(pl_shares) = 2
    /\ Len(pl_records) >= 2
    /\ \E i \in DOMAIN pl_records :
         /\ pl_records[i].rec.internaldate # NoDate
         /\ pl_records[i].rec.body # NoText

(***************************************************************************)
(* Claims about run, under SpecRun.                                        *)
(***************************************************************************)
\* the delay step is performed once, and after the handler is over
DelayOnceAfterHandler ==
    /\ run_delays <= 1
    /\ run_pc \in {"sleep", "returned", "raised"} => run_delays = 1
    /\ run_delays = 1 => run_outcome # "running"

\* C26: run performs the end-of-run delay step exactly once on every run,
\* after the handler has returned or raised, and no exception raised by
\* the handler propagates out of run.
C26_NoHandlerExceptionPropagates ==
    /\ DelayOnceAfterHandler
    /\ run_pc = "raised" => run_from # "handler"

\* C26, amended: the delay step is performed exactly once, after the
\* handler has returned or raised; an exception of class Exception raised
\* by the handler is logged and does not propagate, one that derives from
\* BaseException only propagates once the delay step is over.
C26_OnlyBaseExceptionsPropagate ==
    /\ DelayOnceAfterHandler
    /\ (run_pc = "raised" /\ run_from = "handler") =>
          /\ run_pending \in {"KeyboardInterrupt", "SystemExit"}
          /\ run_slept = run_seconds
    /\ (run_pc \in {"returned", "raised"}
            /\ run_outcome \in {"RuntimeError", "StopIteration"}) =>
          /\ run_errors = 1
          /\ run_from # "handler"

\* a handler's RuntimeError was logged and run returned after the delay
C26_Witness ==
    /\ run_pc = "returned"
    /\ run_outcome = "RuntimeError"
    /\ run_errors = 1
    /\ run_delays = 1
    /\ run_seconds = 2
    /\ run_slept = 2

(***************************************************************************)
(* Claims about the SINCE date of the search, under SpecSince.             *)
(***************************************************************************)
\* C27: the since-date of the search criteria is today plus the configured
\* since-days-ago value, so a negative configured value selects a date in
\* the past and never one in the future.
C27_SinceIsTodayPlusConfigured ==
    since_pc = "done" =>
        /\ DayOf(since_criteria[2]) = since_today + since_days_ago(since_env)
        /\ since_days_ago(since_env) < 0 => DayOf(since_criteria[2]) < since_today

\* C27, amended: the since-date is today minus the configured
\* since-days-ago value: a positive value selects a date that many days in
\* the past, a negative value a date in the future.
C27_SinceIsTodayMinusConfigured ==
    since_pc = "done" =>
        /\ since_criteria[1] = "SINCE"
        /\ DayOf(since_criteria[2]) = since_today - since_days_ago(since_env)
        /\ since_days_ago(since_env) > 0 => DayOf(since_criteria[2]) < since_today
        /\ since_days_ago(since_env) < 0 => DayOf(since_criteria[2]) > since_today

\* SINCE_DAYS_AGO=3 on 1 Mar 2024 gives SINCE 27-Feb-2024
C27_Witness ==
    /\ since_pc = "done"
    /\ since_env = [set |-> TRUE, n |-> 3]
    /\ since_today = FirstToday + 3
    /\ since_criteria = <<"SINCE", [d |-> 27, b |-> "Feb", Y |-> 2024]>>

(***************************************************************************)
(* Claims about the wire encoding of mailbox names, under SpecUtf7.        *)
(***************************************************************************)
\* C28: decode_from_utf7(encode_to_utf7(name)) is name, for every display
\* name.
C28_Utf7RoundTrip ==
    utf_pc = "done" => utf_back = utf_name

\* a name with "&", a character outside ASCII and "-" made the round trip
\* through a wire form that differs from it
C28_Witness ==
    /\ utf_pc = "done"
    /\ utf_name = <<"&", "U", "-">>
    /\ utf_wire = <<"&", "-", "&", "b", "-", "-">>
    /\ utf_back = utf_name

(***************************************************************************)
(* Claims about FernetCipher, under SpecCipher.                            *)
(***************************************************************************)
\* C29: decrypt(encrypt(text)) on the same FernetCipher instance returns
\* the text, for every text.
C29_DecryptInvertsEncrypt ==
    (fc_pc = "done" /\ fc_with = fc_by) =>
        /\ ~fc_out.raised
        /\ fc_out.text = fc_plain

\* a text with a non-ASCII character made the round trip on an instance
\* whose key file was replaced after the instance was made
C29_Witness ==
    /\ fc_pc = "done"
    /\ fc_with = fc_by
    /\ fc_plain = <<"a", "e'">>
    /\ fc_out = [raised |-> FALSE, text |-> fc_plain]
    /\ fc_files[fc_by] # fc_instances[fc_by]

(***************************************************************************)
(* Claims about the batches of a metadata or body fetch, under SpecBatch.  *)
(***************************************************************************)
\* the UIDs of the batches yielded for a mailbox, in order
RECURSIVE BatchedUids(_, _)
BatchedUids(out, mailbox) ==
    IF out = <<>> THEN <<>>
    ELSE (IF Head(out).mailbox = mailbox THEN Head(out).uids ELSE <<>>)
            \o BatchedUids(Tail(out), mailbox)

SelectedOk(mailbox) ==
    \E i \in DOMAIN bt_selects : bt_selects[i].mailbox = mailbox /\ bt_selects[i].ok

\* C31: every batch holds between one and FETCH_SIZE UIDs, all of its own
\* mailbox; when the iteration is over the batches of a mailbox that was
\* selected concatenate to that mailbox's UID list, and a mailbox that
\* could not be selected has no batch.
C31_BatchesPartitionUidLists ==
    /\ \A i \in DOMAIN bt_out :
         /\ Len(bt_out[i].uids) \in 1..bt_size
         /\ \A j \in DOMAIN bt_out[i].uids :
              <<bt_out[i].mailbox, bt_out[i].uids[j]>> \in EntryKeys(bt_records)
    /\ bt_pc = "done" =>
         \A mailbox \in Mailboxes :
            BatchedUids(bt_out, mailbox) =
                IF SelectedOk(mailbox) THEN UidsOf(bt_records, mailbox) ELSE <<>>

\* three UIDs of one mailbox went out as a batch of two and a batch of
\* one, and the other mailbox could not be selected
C31_Witness ==
    /\ bt_pc = "done"
    /\ bt_size = 2
    /\ Len(bt_out) = 2
    /\ Len(bt_out[1].uids) = 2 /\ Len(bt_out[2].uids) = 1
    /\ \E i \in DOMAIN bt_selects : ~bt_selects[i].ok
    /\ Len(UidsOf(bt_records, "Sent")) > 0 /\ Len(UidsOf(bt_records, "INBOX")) > 0

(***************************************************************************)
(* Claims about the commands and the data of a session, under SpecSession. *)
(***************************************************************************)
\* C32: discovery makes one record per (mailbox, UID) pair that a search
\* reported, also when two mailboxes report the same UID, and what a fetch
\* brings from the mailbox selected on the server is written only to
\* records whose key has that mailbox.
C32_DataStaysInItsMailbox ==
    /\ ss_pc = "discover" =>
          /\ EntryKeys(ss_records) = ss_found
          /\ Len(ss_records) = Cardinality(ss_found)
    /\ \A w \in ss_writes : w.from = w.key[1]

\* UID 1 was found in both mailboxes and data was written to both records
C32_Witness ==
    /\ ss_pc = "done"
    /\ {<<"INBOX", 1>>, <<"Sent", 1>>} \subseteq ss_found
    /\ [from |-> "INBOX", key |-> <<"INBOX", 1>>] \in ss_writes
    /\ [from |-> "Sent", key |-> <<"Sent", 1>>] \in ss_writes
    /\ \E i \in DOMAIN ss_records :
         ss_records[i].key = <<"Sent", 1>> /\ ss_records[i].rec.body # NoText

\* C33: when discovery yields no record (every mailbox empty, every answer
\* regular), the run goes through metadata fetch, ranking and body fetch
\* without raising.
C33_EmptyDiscoveryCompletes ==
    (ss_pc = "done" /\ ss_found = {} /\ ss_faults = 0) => ~ss_raised

(***************************************************************************)
(* A claim about the limits of filter_and_sort_records, under SpecRank.    *)
(***************************************************************************)
\* C34: for every integer limit L, zero and negative ones included, a call
\* that returns hands back exactly max(0, min(available, L, systemMax))
\* records, so a limit that is not positive yields no record.
C34_NonPositiveLimitYieldsNothing ==
    (rank_pc = "done" /\ ~rank_out.raised /\ rank_limit.given) =>
        /\ Len(rank_out.items) =
              Max(0, Min(Len(rank_records), Min(rank_limit.n, rank_max)))
        /\ rank_limit.n <= 0 => rank_out.items = <<>>

(***************************************************************************)
(* Claims about the commands a session sees, under SpecSession.            *)
(***************************************************************************)
\* C35 as stated: every selection is read-only and the session sees only
\* select, search, fetch and logout commands.
C35_OnlySelectSearchFetchLogout ==
    \A c \in ss_cmds :
        /\ c.name \in {"select", "search", "fetch", "logout"}
        /\ c.name = "select" => c.readonly

\* C35, amended: every selection is read-only and the session sees only
\* login, list, select, search, fetch and logout commands, none of which
\* modifies message or mailbox state; a fetch is sent only while the
\* mailbox it names is the one selected.
C35_OnlyReadingCommands ==
    /\ \A c \in ss_cmds :
         /\ c.name \in {"login", "list", "select", "search", "fetch", "logout"}
         /\ c.name = "select" => c.readonly
         /\ c.name = "fetch" => Select(c.mailbox) \in ss_cmds
    /\ \A w \in ss_writes : w.from # "none"

\* a finished run that asked for the mailbox list and fetched a body
C35_Witness ==
    /\ ss_pc = "done"
    /\ {Login, List, Search, Logout} \subseteq ss_cmds
    /\ \E c \in ss_cmds : c.name = "select" /\ c.readonly
    /\ \E c \in ss_cmds : c.name = "fetch" /\ c.items = "RFC822"

(***************************************************************************)
(* Claims about the sessions of a multi-thread run, under SpecHandler.     *)
(***************************************************************************)
\* the sessions that are connected and not yet logged out
OpenSessions == {s \in DOMAIN sess : sess[s].state # "logout"}

\* C36: in multi-worker mode the session of discovery, metadata fetch and
\* ranking is logged out before a worker session is opened, at no moment
\* more than SPLIT_WORKERS sessions are open, and every session is logged
\* out before the output file is written.
C36_MainSessionClosedBeforeWorkers ==
    is_multi_thread =>
        /\ (\E w \in Workers : cm_pc[w] # "idle") =>
              /\ cm_pc[0] = "exited"
              /\ imap[0] # None
              /\ sess[imap[0]].state = "logout"
        /\ \A s \in DOMAIN sess :
              sess[s].owner # 0 => \E r \in 1..(s - 1) :
                                     sess[r].owner = 0 /\ sess[r].state = "logout"
        /\ Cardinality(OpenSessions) <= split_workers
        /\ (h_pc \in {"write", "done"} \/ h_write # "none") => OpenSessions = {}

\* a run with two workers that opened three sessions and wrote its file
C36_Witness ==
    /\ is_multi_thread
    /\ split_workers = 2
    /\ Len(sess) = 3
    /\ \A w \in Workers : ncmds[w] >= 1
    /\ OpenSessions = {}
    /\ h_write = "ok"

(***************************************************************************)
(* Claims about the progress of fetch_email_body, under SpecBody.          *)
(***************************************************************************)
\* C37: at every moment of a body fetch the progress counter is at most
\* the progress total, the number of records handed to the body fetch,
\* whatever items the server returns.
C37_ProgressWithinTotal ==
    fb_pc \in {"loop", "after_loop", "returned", "raised"} =>
        fb_pbar <= Len(fb_before)

(***************************************************************************)
(* Claims about the body fetch by several workers, under SpecEquiv.        *)
(***************************************************************************)
\* C38: with the same ranked records and the same server answers, and no
\* fetch failure, the records the caller holds after the merge of every
\* worker's result are the records the body fetch by the caller alone
\* returns: the same keys in the same order with the same subject and body,
\* for every worker count and every interleaving.
C38_WorkersGiveSingleResult ==
    eq_pc = "done" =>
        eq_out = FetchEmailBody(eq_records, eq_size, eq_selectable, eq_answered)

\* two workers with records of both mailboxes, one worker in two batches;
\* some record got its body and some did not
C38_Witness ==
    /\ eq_pc = "done"
    /\ eq_workers = 2
    /\ Len(eq_records) = 4
    /\ eq_size = 1
    /\ \E i \in DOMAIN eq_out : eq_out[i].rec.body # NoText
    /\ \E i \in DOMAIN eq_out : eq_out[i].rec.body = NoText
    /\ eq_selectable = Mailboxes

(***************************************************************************)
(* Claims about the body fetches of a session, under SpecSession.          *)
(***************************************************************************)
\* the keys for which the session has requested the full message
BodiesRequested ==
    UNION {{<<c.mailbox, uid>> : uid \in c.uids} :
             c \in {d \in ss_cmds : d.name = "fetch" /\ d.items = "RFC822"}}

\* C39: a full-body fetch is requested only for keys of the ranked and
\* limited record set and only after metadata fetch and ranking, so one run
\* requests at most systemMax message bodies.
C39_AtMostSystemMaxBodies ==
    BodiesRequested # {} =>
        /\ ss_pc \in {"body", "logout", "done"}
        /\ BodiesRequested \subseteq ss_ranked
        /\ Cardinality(BodiesRequested) <= ss_max

(***************************************************************************)
(* Claims about a failing worker of a multi-thread run, under SpecHandler. *)
(***************************************************************************)
\* C40: in multi-worker mode, when the body fetch of a worker has raised,
\* the handler does not merge that worker's result, writes no output file
\* and can only end by raising (it is never stuck before), and when the
\* exception leaves the handler every worker has finished and has logged
\* out its session.
C40_WorkerFailureRaisesAfterAllLogout ==
    (is_multi_thread /\ \E w \in Workers : exc[w] # "none") =>
        /\ h_pc \in {"join", "shutdown", "raised"}
        /\ h_pc # "raised" => ENABLED NextHandler
        /\ h_write = "none"
        /\ \A w \in Workers : exc[w] # "none" => joined < w
        /\ h_pc = "raised" =>
              /\ \A w \in Workers :
                    /\ cm_pc[w] = "exited"
                    /\ imap[w] # None => sess[imap[w]].state = "logout"
              /\ OpenSessions = {}

\* the first of two workers failed in its body fetch while the second went
\* on fetching; the handler raised with every session logged out
C40_Witness ==
    /\ is_multi_thread
    /\ split_workers = 2
    /\ exc[1] = "body" /\ ncmds[1] = 1
    /\ exc[2] = "none" /\ ncmds[2] = 2
    /\ joined = 0
    /\ h_pc = "raised"
    /\ Len(sess) = 3
    /\ OpenSessions = {}

=============================================================================
